---- MODULE Spec2Model ----
(***************************************************************************)
(* Model of the city-helper chat backend: ChatService.process_message and  *)
(* the AI agent pipeline behind it (classification, agent routing, place   *)
(* suggestion, enrichment with one retry, greedy route optimisation and    *)
(* map assembly), as written in src/app/services.                          *)
(*                                                                         *)
(* One turn is one call of process_message.  Every await of the coroutine  *)
(* is a position of pc; the code between two awaits is one action.         *)
(*                                                                         *)
(* Encoding of Python values:                                              *)
(*   str | None      a string, None being the string "None"; a city name   *)
(*                   or an address, which the city check reads character   *)
(*                   by character, is the sequence of its characters       *)
(*   int | None      <<>> for None, <<d>> for the integer d                *)
(*   list | None     a sequence; None and [] are both <<>> (the code only  *)
(*                   tests such lists for truthiness)                      *)
(*   a text          [isNone, lines]: the lines of the text in order       *)
(*   a message       the set of keywords the message contains              *)
(***************************************************************************)
EXTENDS Integers, Sequences, FiniteSets, TLC

VARIABLES
    openai_api_key,     \* settings.secrets.get_openai_api_key() is set
    google_api_key,     \* settings.secrets.get_google_api_key() is set
    ai_enabled,         \* ChatService.ai_enabled
    pc,                 \* position of the turn inside process_message
    message,            \* argument of process_message
    previous_request,   \* argument of process_message
    previous_response,  \* argument of process_message
    classification,     \* local of _process_with_ai (count is mutated by routing)
    classifier_count,   \* the count classify_query returned, before routing adjusts it
    routing,            \* local of _apply_agent_routing: the decision applied to the
                        \* suggest_places call in flight
    call,               \* the capability call the turn is awaiting
    calls,              \* kinds of the capability calls issued in this turn, in order
    suggestions,        \* places returned by the first suggest_places call
    retry_suggestions,  \* places returned by the retry suggest_places call
    idx,                \* loop position of enrich_places
    enriched_places,    \* local of _enrich_with_retry
    retry_enriched,     \* local of _enrich_with_retry
    ordered_places,     \* enriched_places of _process_with_ai after the optimisation step
    optimized,          \* local of optimize_route_greedy
    remaining,          \* local of optimize_route_greedy
    iterations,         \* how often the body of "while remaining" has run in this call
    result,             \* value returned by process_message
    last_search,        \* the candidate of the last search_place call that ended in
                        \* this turn, and how the places:searchText request ended
    raised,             \* the step of the turn that raised, and the exception
    propagated,         \* exception that left process_message, or None
    suspended,          \* the locals of the other process_message coroutine of the
                        \* event loop, which is waiting at an await or not started
    city_arg,           \* argument requested_city of a call of _is_city_in_address
    address_arg,        \* argument address of a call of _is_city_in_address
    matched,            \* the value the call of _is_city_in_address returned
    full_route_link,    \* the value a call of generate_full_route_link returned
    chat_sessions_db,   \* ChatSessionService.sessions_db
    users_db,           \* AuthService.users_db
    auth_sessions_db,   \* AuthService.sessions_db
    http_exception,     \* status code of the HTTPException the last service call
                        \* raised, or None
    requests            \* the calls made to the session and auth services, in order

vars == <<openai_api_key, google_api_key, ai_enabled, pc, message, previous_request,
          previous_response, classification, classifier_count, routing, call, calls,
          suggestions,
          retry_suggestions, idx, enriched_places, retry_enriched, ordered_places,
          optimized, remaining, iterations, result, last_search, raised, propagated,
          suspended, city_arg, address_arg, matched, full_route_link,
          chat_sessions_db, users_db, auth_sessions_db, http_exception, requests>>

None == "None"

\* no HTTPException raised by the last request
NoException == [status_code |-> 0, detail |-> None]

----------------------------------------------------------------------------
(* Program constants *)

\* the limit of places per request
MaxPlaces == 10

\* the number of places in the previous response of the routing tests
FixtureCount == 5

----------------------------------------------------------------------------
(* Bounds of the model *)

\* the classifier returns the counts 1..MaxCount (and the counts around MaxPlaces)
MaxCount == 3
\* the previous response lists 0..MaxPrev places (and the fixture's count and the
\* counts around MaxPlaces)
MaxPrev == 1
\* the router returns count adjustments -MaxAdjust..MaxAdjust (or none)
MaxAdjust == 2
\* a suggest_places call returns 0..MaxSuggest places
MaxSuggest == 2
\* optimize_route_greedy is called with lists of 0..MaxRoute places
MaxRoute == 4
\* whose latitudes are 0..MaxLat degrees
MaxLat == 2

----------------------------------------------------------------------------
(* Small helpers *)

Abs(x) == IF x < 0 THEN -x ELSE x
Max(a, b) == IF a >= b THEN a ELSE b
Range(s) == {s[i] : i \in 1..Len(s)}
Names(s) == [i \in 1..Len(s) |-> s[i].name]

----------------------------------------------------------------------------
(* Texts and messages *)

NoText == [isNone |-> TRUE, lines |-> <<>>]
Text(lines) == [isNone |-> FALSE, lines |-> lines]
\* Python truthiness of a str | None
TextTruthy(text) == ~text.isNone /\ text.lines # <<>>

\* a line "i. **name** - description..." and any other line
ItemLine(name) == [kind |-> "item", name |-> name]
ProseLine == [kind |-> "prose", name |-> <<>>]

\* the response text _process_with_ai writes for a list of places
response_text(places) ==
    Text(<<ProseLine>> \o [i \in 1..Len(places) |-> ItemLine(places[i].name)]
         \o <<ProseLine, ProseLine>>)

\* re.findall(r"\d+\.\s+\*\*([^*]+)\*\*", text): the names of the numbered bold
\* items, in order; None when the text is empty or has no such item
extract_places_from_response(text) ==
    IF ~TextTruthy(text) THEN <<>>
    ELSE LET items == SelectSeq(text.lines, LAMBDA l : l.kind = "item")
             matches == Names(items)
         IN  IF matches # <<>> THEN matches ELSE <<>>

\* "центр" in message_lower or "center" in message_lower
MentionsCenter(msg) == "tsentr" \in msg \/ "center" \in msg

ChecklistKeywords == {"spisok", "del", "zadach", "pereezd", "schet", "bank"}
MapKeywords == {"marshrut", "progulk", "dosug", "kart", "bar", "muze", "park"}

----------------------------------------------------------------------------
(* Agent routing: ChatService._apply_agent_routing after route_request returned *)

OperationTypes == {"add", "remove", "replace_last", "replace_all", "refine", "new"}

\* Python truthiness of routing.count_adjustment (int | None)
AdjustmentTruthy(ca) == ca # <<>> /\ ca[1] # 0

\* adjusted_count applying the adjustment with its sign, without abs()
AdjustedCountSigned(decision, count, previous_count) ==
    IF decision.operation_type = "add" /\ AdjustmentTruthy(decision.count_adjustment)
    THEN previous_count + decision.count_adjustment[1]
    ELSE IF decision.operation_type = "remove" /\ AdjustmentTruthy(decision.count_adjustment)
    THEN Max(1, previous_count - decision.count_adjustment[1])
    ELSE IF decision.operation_type \in {"replace_last", "replace_all"}
    THEN Max(count, previous_count)
    ELSE count

\* adjusted_count leaving the classifier's count to a replace operation
AdjustedCountReplaceKeepsCount(decision, count, previous_count) ==
    IF decision.operation_type = "add" /\ AdjustmentTruthy(decision.count_adjustment)
    THEN previous_count + Abs(decision.count_adjustment[1])
    ELSE IF decision.operation_type = "remove" /\ AdjustmentTruthy(decision.count_adjustment)
    THEN Max(1, previous_count - Abs(decision.count_adjustment[1]))
    ELSE count

\* adjusted_count taking an absent adjustment for 0 and applying it all the same
AdjustedCountAbsentAsZero(decision, count, previous_count) ==
    LET d == IF decision.count_adjustment = <<>> THEN 0 ELSE decision.count_adjustment[1]
    IN  IF decision.operation_type = "add"
        THEN previous_count + Abs(d)
        ELSE IF decision.operation_type = "remove"
        THEN Max(1, previous_count - Abs(d))
        ELSE IF decision.operation_type \in {"replace_last", "replace_all"}
        THEN Max(count, previous_count)
        ELSE count

\* adjusted_count subtracting without the floor of 1
AdjustedCountRemoveUnclamped(decision, count, previous_count) ==
    IF decision.operation_type = "add" /\ AdjustmentTruthy(decision.count_adjustment)
    THEN previous_count + Abs(decision.count_adjustment[1])
    ELSE IF decision.operation_type = "remove" /\ AdjustmentTruthy(decision.count_adjustment)
    THEN previous_count - Abs(decision.count_adjustment[1])
    ELSE IF decision.operation_type \in {"replace_last", "replace_all"}
    THEN Max(count, previous_count)
    ELSE count

\* classification.count after the "Adjust count based on operation" block
adjusted_count(decision, count, previous_count) ==
    IF decision.operation_type = "add" /\ AdjustmentTruthy(decision.count_adjustment)
    THEN previous_count + Abs(decision.count_adjustment[1])
    ELSE IF decision.operation_type = "remove" /\ AdjustmentTruthy(decision.count_adjustment)
    THEN Max(1, previous_count - Abs(decision.count_adjustment[1]))
    ELSE IF decision.operation_type \in {"replace_last", "replace_all"}
    THEN Max(count, previous_count)
    ELSE count

\* "Extract theme from message"
theme_from_message(decision, msg) ==
    IF MentionsCenter(msg)
    THEN IF decision.operation_type \in {"replace_last", "replace_all"}
         THEN "in city center (Marienplatz, Altstadt area)"
         ELSE IF decision.operation_type = "add" THEN "in city center" ELSE None
    ELSE None

\* IsFreshDecision testing the operation type alone
IsFreshOnlyOperationNew(decision) == decision.operation_type = "new"

\* the branch "routing.is_new_request or routing.operation_type == 'new'"
IsFreshDecision(decision) == decision.is_new_request \/ decision.operation_type = "new"

\* previous_places_list before the routing decision is known
previous_places(prev_response) ==
    IF TextTruthy(prev_response)
    THEN extract_places_from_response(prev_response) ELSE <<>>

\* previous_count
previous_count(prev_response) == Len(previous_places(prev_response))

\* (previous_places_list, operation_hint, theme_override) and the mutated
\* classification.count
apply_agent_routing(msg, count, prev_response, decision) ==
    LET previous_places_list == previous_places(prev_response)
    IN  IF IsFreshDecision(decision)
        THEN [previous_places_list |-> <<>>, operation_hint |-> None,
              theme_override |-> None, count |-> count]
        ELSE [previous_places_list |-> previous_places_list,
              operation_hint |-> decision.operation_type,
              theme_override |-> theme_from_message(decision, msg),
              count |-> adjusted_count(decision, count, previous_count(prev_response))]

\* Python's "a or b" on str | None
OrElse(a, b) == IF a # None THEN a ELSE b

----------------------------------------------------------------------------
(* Capability calls *)

NoCall == [kind |-> "none", count |-> 0, theme |-> None, previous_places |-> <<>>,
           modification_request |-> <<>>, operation_hint |-> None,
           excluded_places |-> <<>>, previous_places_count |-> 0, query |-> <<>>]

ClassifyCall == [NoCall EXCEPT !.kind = "classify"]

\* RouteCall issuing the suggestion call in place of the routing call
RouteCallSkipped(prev_response) ==
    [NoCall EXCEPT !.kind = "suggest",
                   !.previous_places_count = previous_count(prev_response)]

\* openai_service.route_request(..., previous_places_count=previous_count)
RouteCall(prev_response) ==
    [NoCall EXCEPT !.kind = "route",
                   !.previous_places_count = previous_count(prev_response)]

\* the first suggest_places call of _process_with_ai
first_suggest_call(msg, cls, prev_response, decision) ==
    LET r == apply_agent_routing(msg, cls.count, prev_response, decision)
    IN  [NoCall EXCEPT !.kind = "suggest",
                       !.count = r.count,
                       !.theme = OrElse(r.theme_override, cls.theme),
                       !.previous_places = r.previous_places_list,
                       !.modification_request =
                           IF r.previous_places_list # <<>> THEN <<msg>> ELSE <<>>,
                       !.operation_hint = r.operation_hint]

\* no_suggestions of a pipeline without the test
NoSuggestionsIgnored(places) == FALSE

\* "if not suggestions.places" after the first suggest_places call
no_suggestions(places) == places = <<>>

\* needs_retry with <= for <
NeedsRetryOrEqual(cls, enriched) == Len(enriched) <= cls.count

\* "Retry if we didn't get enough places"
needs_retry(cls, enriched) == Len(enriched) < cls.count

\* tried_places of _enrich_with_retry
tried_places(first_suggestions) == Names(first_suggestions)

\* missing_count asking for the whole count again
MissingCountFull(cls, enriched) == cls.count

\* missing_count of _enrich_with_retry
missing_count(cls, enriched) == cls.count - Len(enriched)

\* retry_suggest_call excluding only the names that enriched
RetrySuggestCallExcludesEnriched(cls, first_suggestions, enriched) ==
    [NoCall EXCEPT !.kind = "suggest",
                   !.count = cls.count - Len(enriched),
                   !.theme = cls.theme,
                   !.excluded_places = Names(enriched)]

\* retry_suggest_call passing on the previous places and the message, as the first
\* call of a modification turn does
RetrySuggestCallAsFirst(cls, first_suggestions, enriched) ==
    [NoCall EXCEPT !.kind = "suggest",
                   !.count = missing_count(cls, enriched),
                   !.theme = cls.theme,
                   !.previous_places = previous_places(previous_response),
                   !.modification_request =
                       IF previous_places(previous_response) # <<>>
                       THEN <<message>> ELSE <<>>,
                   !.excluded_places = tried_places(first_suggestions)]

\* the retry suggest_places call of _enrich_with_retry
retry_suggest_call(cls, first_suggestions, enriched) ==
    [NoCall EXCEPT !.kind = "suggest",
                   !.count = missing_count(cls, enriched),
                   !.theme = cls.theme,
                   !.excluded_places = tried_places(first_suggestions)]

\* places_service.search_place(suggestion.name, location)
SearchCall(suggestion) == [NoCall EXCEPT !.kind = "search", !.query = suggestion.name]

\* the str ""; every other message is the set of the keywords it contains
EmptyMessage == {}

\* Python truthiness of modification_request (str | None)
RequestTruthy(request) == request # <<>> /\ request[1] # EmptyMessage

\* SuggestMode deciding on previous_places alone
SuggestModeByPreviousPlaces(c) ==
    IF c.previous_places # <<>> THEN "modification" ELSE "fresh"

\* suggest_places builds the modification prompt or the fresh prompt:
\* "if previous_places and modification_request"
SuggestMode(c) ==
    IF c.previous_places # <<>> /\ RequestTruthy(c.modification_request)
    THEN "modification" ELSE "fresh"

----------------------------------------------------------------------------
(* Place enrichment: PlacesService *)

\* a str is the sequence of its characters
Location ==
    <<"M", "u", "n", "i", "c", "h">>

\* formattedAddress of a place in the requested city, and of one elsewhere
AddressInCity ==
    <<"P", "l", "a", "t", "z", "l", " ", "9", ",", " ", "M", "ü", "n", "c",
      "h", "e", "n">>
AddressElsewhere ==
    <<"K", "ö", "n", "i", "g", "s", "t", "r", ".", " ", "5", ",", " ", "S",
      "t", "u", "t", "t", "g", "a", "r", "t">>

UpperLetters ==
    <<"A", "B", "C", "D", "E", "F", "G", "H", "I", "J", "K", "L", "M", "N",
      "O", "P", "Q", "R", "S", "T", "U", "V", "W", "X", "Y", "Z">>
LowerLetters ==
    <<"a", "b", "c", "d", "e", "f", "g", "h", "i", "j", "k", "l", "m", "n",
      "o", "p", "q", "r", "s", "t", "u", "v", "w", "x", "y", "z">>

\* the letters with a diacritic, and the letter NFD leaves of each once the
\* combining marks (category Mn) are removed
AccentedLetters == <<"ä", "ö", "ü", "é">>
BaseLetters == <<"a", "o", "u", "e">>

\* the index of character c in the table, 0 if it is not there
IndexIn(table, c) ==
    IF \E i \in 1..Len(table) : table[i] = c
    THEN CHOOSE i \in 1..Len(table) : table[i] = c ELSE 0

\* str.lower() on one character
LowerChar(c) ==
    IF IndexIn(UpperLetters, c) # 0 THEN LowerLetters[IndexIn(UpperLetters, c)]
    ELSE IF c = "Ü" THEN "ü" ELSE IF c = "Ö" THEN "ö" ELSE IF c = "Ä" THEN "ä"
    ELSE c

\* str.lower()
Lower(s) == [i \in 1..Len(s) |-> LowerChar(s[i])]

\* str.strip(chars): drops the leading and trailing characters that are in chars
Strip(s, chars) ==
    LET kept == {i \in 1..Len(s) : s[i] \notin chars}
    IN  IF kept = {} THEN <<>>
        ELSE SubSeq(s, CHOOSE i \in kept : \A j \in kept : i <= j,
                       CHOOSE i \in kept : \A j \in kept : i >= j)

Whitespace == {" "}

\* "a in b" on strings
Contains(b, a) ==
    \E i \in 0..(Len(b) - Len(a)) : SubSeq(b, i + 1, i + Len(a)) = a

\* str.replace(old, new) for single characters
Replace(s, old, new) == [i \in 1..Len(s) |-> IF s[i] = old THEN new ELSE s[i]]

RECURSIVE SplitFrom(_, _, _)
\* str.split(): the maximal runs of non-whitespace characters, from position i on,
\* token being the run read so far
SplitFrom(s, i, token) ==
    LET done == IF token = <<>> THEN <<>> ELSE <<token>>
    IN  IF i > Len(s) THEN done
        ELSE IF s[i] \in Whitespace THEN done \o SplitFrom(s, i + 1, <<>>)
        ELSE SplitFrom(s, i + 1, Append(token, s[i]))

Split(s) == SplitFrom(s, 1, <<>>)

\* _normalize_city_name: NFD, drop the combining marks, lower(), strip()
normalize_city_name(city) ==
    LET normalized ==
            [i \in 1..Len(city) |->
                IF city[i] = "Ü" THEN "U" ELSE IF city[i] = "Ö" THEN "O"
                ELSE IF city[i] = "Ä" THEN "A"
                ELSE IF IndexIn(AccentedLetters, city[i]) # 0
                THEN BaseLetters[IndexIn(AccentedLetters, city[i])]
                ELSE city[i]]
    IN  Strip(Lower(normalized), Whitespace)

Min3(a, b, c) == IF a <= b /\ a <= c THEN a ELSE IF b <= c THEN b ELSE c

RECURSIVE LevenshteinRow(_, _, _, _)
\* the inner loop of _levenshtein_distance: current_row, of which the first
\* Len(current_row) entries are computed
LevenshteinRow(previous_row, c1, s2, current_row) ==
    IF Len(current_row) = Len(s2) + 1 THEN current_row
    ELSE LET j == Len(current_row)
             insertions == previous_row[j + 1] + 1
             deletions == current_row[j] + 1
             substitutions == previous_row[j] + (IF c1 # s2[j] THEN 1 ELSE 0)
         IN  LevenshteinRow(previous_row, c1, s2,
                            Append(current_row, Min3(insertions, deletions, substitutions)))

RECURSIVE LevenshteinRows(_, _, _, _)
\* the outer loop of _levenshtein_distance, at character i of s1
LevenshteinRows(s1, s2, i, previous_row) ==
    IF i > Len(s1) THEN previous_row[Len(previous_row)]
    ELSE LevenshteinRows(s1, s2, i + 1, LevenshteinRow(previous_row, s1[i], s2, <<i>>))

\* _levenshtein_distance
levenshtein_distance(s1, s2) ==
    LET long == IF Len(s1) < Len(s2) THEN s2 ELSE s1
        short == IF Len(s1) < Len(s2) THEN s1 ELSE s2
    IN  IF Len(short) = 0 THEN Len(long)
        ELSE LevenshteinRows(long, short, 1, [j \in 1..(Len(short) + 1) |-> j - 1])

\* max_allowed_distance allowing a quarter of the length
MaxAllowedDistanceQuarter(city_normalized) == Max(3, Len(city_normalized) \div 4)

\* max_allowed_distance
max_allowed_distance(city_normalized) == Max(3, Len(city_normalized) \div 3)

\* strategies 3 and 4 of _is_city_in_address on one address token
TokenMatches(token, city_lower, city_normalized) ==
    LET token_clean == Strip(token, {".", ",", ";", "-"})
        token_normalized == normalize_city_name(token_clean)
    IN  IF token_clean = <<>> \/ Len(token_clean) < 3 THEN FALSE
        ELSE \/ token_clean = city_lower
             \/ token_normalized = city_normalized
             \/ /\ Len(city_normalized) >= 4
                /\ levenshtein_distance(city_normalized, token_normalized)
                       <= max_allowed_distance(city_normalized)

\* _is_city_in_address
is_city_in_address(requested_city, address) ==
    LET address_lower == Lower(address)
        city_lower == Strip(Lower(requested_city), Whitespace)
        city_normalized == normalize_city_name(requested_city)
        address_normalized == normalize_city_name(address)
        address_tokens == Split(Replace(address_lower, ",", " "))
    IN  \/ Contains(address_lower, city_lower)
        \/ Contains(address_normalized, city_normalized)
        \/ \E t \in 1..Len(address_tokens) :
               TokenMatches(address_tokens[t], city_lower, city_normalized)

\* what one places:searchText request can do
SearchOutcomes ==
    {[status |-> s, address |-> <<>>] : s \in {"timeout", "http_error", "no_results"}}
    \cup {[status |-> "found", address |-> a] : a \in {AddressInCity, AddressElsewhere}}

\* city_in_address of enrich_place: _is_city_in_address(location, address), tabulated
\* over the locations and the addresses of the model
city_in_address ==
    [location \in {Location} |->
        [address \in {AddressInCity, AddressElsewhere} |->
            is_city_in_address(location, address)]]

\* search_place: the place dict, or None for an error, a non-200 answer or no place
search_place(outcome) == IF outcome.status = "found" THEN <<outcome>> ELSE <<>>

\* latitude (degrees) of the place Google returns for a suggested name; the places
\* of the model lie on one meridian
PlaceLat(name) ==
    IF name[1] = "first" THEN (3 * name[2]) % 5 ELSE (2 * name[2] + 1) % 5

\* enrich_place without the city check
EnrichPlaceUnchecked(suggestion, location, outcome) ==
    LET place_data == search_place(outcome)
    IN  IF place_data = <<>> THEN <<>>
        ELSE <<[name |-> suggestion.name,
                address |-> place_data[1].address,
                lat |-> PlaceLat(suggestion.name)]>>

\* enrich_place: <<EnrichedPlace>>, or <<>> for None
enrich_place(suggestion, location, outcome) ==
    LET place_data == search_place(outcome)
    IN  IF place_data = <<>> THEN <<>>
        ELSE IF ~city_in_address[location][place_data[1].address] THEN <<>>
        ELSE <<[name |-> suggestion.name,
                address |-> place_data[1].address,
                lat |-> PlaceLat(suggestion.name)]>>

\* the loop body of enrich_places putting the new place in front
EnrichPlacesPrepend(places, enriched) == enriched \o places

\* the loop body of enrich_places: "if enriched: enriched_places.append(enriched)"
enrich_places_append(places, enriched) ==
    IF enriched # <<>> THEN Append(places, enriched[1]) ELSE places

----------------------------------------------------------------------------
(* Route optimisation: optimize_route_greedy *)

RadiusEarth == 6371

\* haversine distance of two places on one meridian, in metres:
\* radius_earth * radians(|dlat|)
calculate_distance(place1, place2) ==
    (RadiusEarth * 17453 * Abs(place2.lat - place1.lat)) \div 1000

\* min(remaining, key=...) returning the last element at minimal distance
NearestIndexLast(current, unvisited) ==
    CHOOSE i \in 1..Len(unvisited) :
        /\ \A j \in 1..Len(unvisited) :
               calculate_distance(current, unvisited[i])
                   <= calculate_distance(current, unvisited[j])
        /\ \A j \in (i + 1)..Len(unvisited) :
               calculate_distance(current, unvisited[j])
                   > calculate_distance(current, unvisited[i])

\* min(remaining, key=...): the index of the first element at minimal distance
NearestIndex(current, unvisited) ==
    CHOOSE i \in 1..Len(unvisited) :
        /\ \A j \in 1..Len(unvisited) :
               calculate_distance(current, unvisited[i])
                   <= calculate_distance(current, unvisited[j])
        /\ \A j \in 1..(i - 1) :
               calculate_distance(current, unvisited[j])
                   > calculate_distance(current, unvisited[i])

\* list.remove(x) dropping every element equal to x
ListRemoveAll(s, x) == SelectSeq(s, LAMBDA y : y # x)

\* list.remove(x): drops the first element equal to x
ListRemove(s, x) ==
    LET k == CHOOSE i \in 1..Len(s) : s[i] = x /\ \A j \in 1..(i - 1) : s[j] # x
    IN  SubSeq(s, 1, k - 1) \o SubSeq(s, k + 1, Len(s))

RECURSIVE GreedyLoop(_, _)
\* the "while remaining" loop
GreedyLoop(route, unvisited) ==
    IF unvisited = <<>> THEN route
    ELSE LET current == route[Len(route)]
             nearest == unvisited[NearestIndex(current, unvisited)]
         IN  GreedyLoop(Append(route, nearest), ListRemove(unvisited, nearest))

\* no_optimization returning the places in reverse
NoOptimizationReversed(places) == [i \in 1..Len(places) |-> places[Len(places) + 1 - i]]

\* "return places  # No optimization needed"
no_optimization(places) == places

\* optimize_route_greedy as a function of its argument
optimize_route_greedy(places) ==
    IF Len(places) <= 2 THEN no_optimization(places)
    ELSE GreedyLoop(<<places[1]>>, Tail(places))

\* nearest = min(remaining, key=lambda p: calculate_distance(current, p))
nearest_place(current, unvisited) == unvisited[NearestIndex(current, unvisited)]

----------------------------------------------------------------------------
(* Map assembly: MapsService *)

\* parameters of generate_embed_url(self, places)
EmbedUrlParameters == {"places"}

\* keyword arguments of the call generate_embed_url(places, mode="directions")
FullRouteEmbedKeywords == {"mode"}

\* a Python call with a keyword the function does not declare raises TypeError
CallRaisesTypeError(parameters, keywords) == ~(keywords \subseteq parameters)

\* the embed URL of a list of places, by its parts
generate_embed_url(places) ==
    IF places = <<>> THEN [kind |-> "empty", stops |-> <<>>]
    ELSE IF Len(places) = 1 THEN [kind |-> "place", stops |-> Names(places)]
    ELSE [kind |-> "directions", stops |-> Names(places)]

\* "lat,lng" of a place; the places of the model lie on one meridian
Coordinates(place) == place.lat

\* generate_place_link: the googleMapsUri of the place if it has one, else the
\* /maps/place/ URL of its name and coordinates
generate_place_link(place) ==
    IF place.google_maps_link # <<>>
    THEN [kind |-> "uri", uri |-> place.google_maps_link[1]]
    ELSE [kind |-> "place", name |-> place.name, at |-> Coordinates(place)]

\* the empty string
EmptyLink == [kind |-> "empty"]

\* generate_full_route_link listing every place after the first as a waypoint
FullRouteLinkDestinationAsWaypoint(places, travel_mode) ==
    IF places = <<>> THEN EmptyLink
    ELSE IF Len(places) = 1 THEN generate_place_link(places[1])
    ELSE [kind |-> "directions",
          origin |-> Coordinates(places[1]),
          destination |-> Coordinates(places[Len(places)]),
          travelmode |-> travel_mode,
          waypoints |-> [i \in 1..(Len(places) - 1) |-> Coordinates(places[i + 1])]]

\* generate_full_route_link: the /maps/dir/ URL by its query parameters
generate_full_route_link(places, travel_mode) ==
    IF places = <<>> THEN EmptyLink
    ELSE IF Len(places) = 1 THEN generate_place_link(places[1])
    ELSE [kind |-> "directions",
          origin |-> Coordinates(places[1]),
          destination |-> Coordinates(places[Len(places)]),
          travelmode |-> travel_mode,
          waypoints |-> [i \in 1..(Len(places) - 2) |-> Coordinates(places[i + 1])]]

MapPoints(places) == [i \in 1..Len(places) |-> [name |-> places[i].name]]

MapSegments(places) ==
    [i \in 1..(Len(places) - 1) |->
        [from |-> places[i].name, to |-> places[i + 1].name,
         mapUrl |-> generate_embed_url(<<places[i], places[i + 1]>>)]]

NoMapData == [points |-> <<>>, segments |-> <<>>,
              fullRouteLink |-> [kind |-> "empty", stops |-> <<>>, travelmode |-> None]]

\* generate_map_data: the MapData, or the exception it raises
generate_map_data(places, travel_mode) ==
    IF CallRaisesTypeError(EmbedUrlParameters, FullRouteEmbedKeywords)
    THEN [raised |-> "TypeError", data |-> NoMapData]
    ELSE [raised |-> None,
          data |-> [points |-> MapPoints(places),
                    segments |-> MapSegments(places),
                    fullRouteLink |-> generate_full_route_link(places, travel_mode)]]

----------------------------------------------------------------------------
(* Values returned by process_message *)

\* a workspace dict: its keys, and the values under "type" and "data"
\* {"type": wtype}
TypeOnlyWorkspace(wtype) == [type |-> wtype, keys |-> {"type"}, data |-> NoMapData]
\* {"type": wtype, "data": data}
DataWorkspace(wtype, data) == [type |-> wtype, keys |-> {"type", "data"}, data |-> data]

NoResult == [response |-> None,
             workspace |-> [type |-> None, keys |-> {}, data |-> NoMapData],
             listed |-> <<>>]

\* Response with a "data" key in the workspace
ResponseWithData(text, wtype) ==
    [response |-> text, workspace |-> DataWorkspace(wtype, NoMapData), listed |-> <<>>]

\* {"response": text, "workspace": {"type": wtype}}
Response(text, wtype) ==
    [response |-> text, workspace |-> TypeOnlyWorkspace(wtype), listed |-> <<>>]

\* _fallback_response
fallback_response(text) == Response(text, "empty")

HelpText == "I'll help you find interesting places in the city!"
OverLimitText == "Sorry, but our service currently supports up to 10 places per request"
NoSuggestionsText == "Unfortunately, couldn't find suitable places."
NoLocationsText == "Couldn't find exact locations"
ErrorText == "Sorry, an error occurred while processing your request. Please try again."
MapText == "Great choice! I've selected places for you"

\* CaughtExceptions of a handler written "except ValueError"
CaughtValueErrorOnly == {"ValueError"}

\* CaughtExceptions of a handler that lets the errors of the OpenAI client pass
CaughtLocalErrorsOnly == {"TypeError", "ValueError"}

\* exception classes process_message's "except Exception" catches
CaughtExceptions == {"APIError", "ValidationError", "TypeError", "ValueError"}

\* what a failing OpenAI call raises
CapabilityErrors == {"APIError", "ValidationError"}

\* early_return without the count limit
EarlyReturnNoCap(c) == IF ~c.is_route_request THEN "help" ELSE "continue"

\* early_return testing the count limit before is_route_request
EarlyReturnCapFirst(c) ==
    IF c.count > MaxPlaces THEN "over_limit"
    ELSE IF ~c.is_route_request THEN "help"
    ELSE "continue"

\* the two early returns of _process_with_ai after classification
early_return(c) ==
    IF ~c.is_route_request THEN "help"
    ELSE IF c.count > MaxPlaces THEN "over_limit"
    ELSE "continue"

\* MockDataGenerator.generate_map: the sample route of four points and three
\* segments
generate_map ==
    [points |-> [i \in 1..4 |-> [name |-> <<"mock", i>>]],
     segments |-> [i \in 1..3 |->
                      [from |-> <<"mock", i>>, to |-> <<"mock", i + 1>>,
                       mapUrl |-> [kind |-> "place", stops |-> <<>>]]],
     fullRouteLink |-> [kind |-> "directions",
                        stops |-> [i \in 1..3 |-> <<"mock", i>>],
                        travelmode |-> None]]

ChecklistItems == 7

\* MockDataGenerator.generate_checklist
generate_checklist ==
    [title |-> "[BACKEND] checklist",
     items |-> [i \in 1..ChecklistItems |-> [id |-> i, completed |-> FALSE]]]

\* _process_with_mock
process_with_mock(msg) ==
    IF msg \cap ChecklistKeywords # {}
    THEN [response |-> "[MOCK MODE] checklist",
          workspace |-> DataWorkspace("checklist", generate_checklist), listed |-> <<>>]
    ELSE IF msg \cap MapKeywords # {}
    THEN [response |-> "[MOCK MODE] sample route",
          workspace |-> DataWorkspace("map", generate_map), listed |-> <<>>]
    ELSE Response("Hello! I'm City Helper in demo mode (mock mode)", "empty")

\* finish_pipeline without the test "if not enriched_places"
FinishPipelineNoEmptyTest(cls, ordered) ==
    LET map_data == generate_map_data(ordered, cls.travel_mode)
    IN  IF map_data.raised # None
        THEN [raised |-> map_data.raised, value |-> NoResult]
        ELSE [raised |-> None,
              value |-> [response |-> MapText,
                         workspace |-> DataWorkspace("map", map_data.data),
                         listed |-> Names(ordered)]]

\* the tail of _process_with_ai after the optimisation step left the places in the
\* order ordered: the returned value and the exception raised, if any
finish_pipeline(cls, ordered) ==
    LET map_data == generate_map_data(ordered, cls.travel_mode)
    IN  IF ordered = <<>>
        THEN [raised |-> None, value |-> fallback_response(NoLocationsText)]
        ELSE IF map_data.raised # None
        THEN [raised |-> map_data.raised, value |-> NoResult]
        ELSE [raised |-> None,
              value |-> [response |-> MapText,
                         workspace |-> DataWorkspace("map", map_data.data),
                         listed |-> Names(ordered)]]

----------------------------------------------------------------------------
(* Inputs of a turn and answers of the capabilities *)

Messages == {{"weather"}, {"bar", "center"}, {"spisok", "bar"}}

PreviousPlaces(n) == [i \in 1..n |-> [name |-> <<"prev", i>>]]

PrevCounts == (0..MaxPrev) \cup {FixtureCount, MaxPlaces - 1, MaxPlaces + 1}

PreviousRequest == "Top 5 bars in Munich"

\* (previous_request, previous_response) of a turn; a previous response that lists
\* no place is a text without a numbered item
PrevContexts ==
    {[previous_request |-> None, previous_response |-> NoText],
     [previous_request |-> PreviousRequest, previous_response |-> NoText],
     [previous_request |-> None, previous_response |-> response_text(PreviousPlaces(2))]}
    \cup {[previous_request |-> PreviousRequest,
           previous_response |-> response_text(PreviousPlaces(k))] : k \in PrevCounts}

\* QueryClassification values the classifier returns (count has ge=1)
ClassCounts == (1..MaxCount) \cup {MaxPlaces, MaxPlaces + 1, MaxPlaces + 5}

Classifications ==
    [is_route_request : BOOLEAN, count : ClassCounts,
     theme : {None, "craft beer"}, travel_mode : {"walking"}]

NoClassification ==
    [is_route_request |-> FALSE, count |-> 0, theme |-> None, travel_mode |-> None]

\* AgentRoutingDecision values the router returns (the fields the code reads)
Adjustments == {<<>>} \cup {<<d>> : d \in (-MaxAdjust)..MaxAdjust}

RoutingDecisions ==
    [is_new_request : BOOLEAN, operation_type : OperationTypes,
     count_adjustment : Adjustments]

NoRouting ==
    [is_new_request |-> FALSE, operation_type |-> None, count_adjustment |-> <<>>]

NoRaise == [step |-> None, exc |-> None]

\* EnrichedPlace values optimize_route_greedy is called with, and the lists of them
RoutePlaces == [name : {<<"first", 1>>, <<"first", 2>>}, address : {AddressInCity},
                lat : 0..MaxLat]

RouteInputs == UNION {[1..n -> RoutePlaces] : n \in 0..MaxRoute}

NoSearch == [query |-> <<>>, outcome |-> [status |-> None, address |-> <<>>]]

\* PlaceSuggestions.places a suggest_places call returns
SuggestedPlaces(round, n) == [i \in 1..n |-> [name |-> <<round, i>>]]

----------------------------------------------------------------------------
(* The state machine *)

\* ai_enabled being set as soon as one service is available
AiEnabledIfAnyAvailable(openai_available, places_available, maps_available) ==
    openai_available \/ places_available \/ maps_available

\* ChatService.__init__: self.ai_enabled
is_ai_enabled(openai_available, places_available, maps_available) ==
    openai_available /\ places_available /\ maps_available

\* the locals of a process_message coroutine that has not started
NotStarted ==
    [pc |-> "idle",
     message |-> {},
     previous_request |-> None,
     previous_response |-> NoText,
     classification |-> NoClassification,
     classifier_count |-> 0,
     routing |-> NoRouting,
     call |-> NoCall,
     calls |-> <<>>,
     suggestions |-> <<>>,
     retry_suggestions |-> <<>>,
     idx |-> 0,
     enriched_places |-> <<>>,
     retry_enriched |-> <<>>,
     ordered_places |-> <<>>,
     optimized |-> <<>>,
     remaining |-> <<>>,
     iterations |-> 0,
     result |-> NoResult,
     last_search |-> NoSearch,
     raised |-> NoRaise,
     propagated |-> None]

Init ==
    /\ openai_api_key \in BOOLEAN
    /\ google_api_key \in BOOLEAN
    /\ ai_enabled = is_ai_enabled(openai_api_key, google_api_key, google_api_key)
    /\ pc = "idle"
    /\ message = {}
    /\ previous_request = None
    /\ previous_response = NoText
    /\ classification = NoClassification
    /\ classifier_count = 0
    /\ routing = NoRouting
    /\ call = NoCall
    /\ calls = <<>>
    /\ suggestions = <<>>
    /\ retry_suggestions = <<>>
    /\ idx = 0
    /\ enriched_places = <<>>
    /\ retry_enriched = <<>>
    /\ ordered_places = <<>>
    /\ optimized = <<>>
    /\ remaining = <<>>
    /\ iterations = 0
    /\ result = NoResult
    /\ last_search = NoSearch
    /\ raised = NoRaise
    /\ propagated = None
    /\ suspended = NotStarted
    /\ city_arg = <<>>
    /\ address_arg = <<>>
    /\ matched = None
    /\ full_route_link = None
    /\ chat_sessions_db = <<>>
    /\ users_db = <<>>
    /\ auth_sessions_db = <<>>
    /\ http_exception = NoException
    /\ requests = <<>>

KeysUnchanged == UNCHANGED <<openai_api_key, google_api_key, ai_enabled>>
SuspendedUnchanged == UNCHANGED suspended
MatcherUnchanged == UNCHANGED <<city_arg, address_arg, matched>>
LinkUnchanged == UNCHANGED full_route_link
SessionStoreUnchanged == UNCHANGED chat_sessions_db
AuthUnchanged == UNCHANGED <<users_db, auth_sessions_db>>
ServicesUnchanged ==
    /\ LinkUnchanged
    /\ SessionStoreUnchanged
    /\ AuthUnchanged
    /\ UNCHANGED <<http_exception, requests>>
ArgsUnchanged == UNCHANGED <<message, previous_request, previous_response>>

\* process_message returns value
Return(value) ==
    /\ pc' = "returned"
    /\ call' = NoCall
    /\ routing' = NoRouting
    /\ result' = value
    /\ raised' = NoRaise
    /\ propagated' = None

\* exception exc, raised in step, reaches the try/except of process_message
Raise(step, exc) ==
    /\ pc' = "returned"
    /\ call' = NoCall
    /\ routing' = NoRouting
    /\ raised' = [step |-> step, exc |-> exc]
    /\ IF exc \in CaughtExceptions
       THEN result' = fallback_response(ErrorText) /\ propagated' = None
       ELSE result' = NoResult /\ propagated' = exc

\* a new turn starts with fresh locals
FreshLocals ==
    /\ classification' = NoClassification
    /\ classifier_count' = 0
    /\ suggestions' = <<>>
    /\ retry_suggestions' = <<>>
    /\ idx' = 0
    /\ enriched_places' = <<>>
    /\ retry_enriched' = <<>>
    /\ ordered_places' = <<>>
    /\ optimized' = <<>>
    /\ remaining' = <<>>
    /\ iterations' = 0
    /\ last_search' = NoSearch

\* process_message with ai_enabled: up to the await of classify_query
ProcessMessageAI(msg, ctx) ==
    /\ pc = "idle"
    /\ ai_enabled
    /\ message' = msg
    /\ previous_request' = ctx.previous_request
    /\ previous_response' = ctx.previous_response
    /\ FreshLocals
    /\ pc' = "classify"
    /\ call' = ClassifyCall
    /\ calls' = <<call'.kind>>
    /\ routing' = NoRouting
    /\ result' = NoResult
    /\ raised' = NoRaise
    /\ propagated' = None
    /\ KeysUnchanged /\ SuspendedUnchanged /\ MatcherUnchanged /\ ServicesUnchanged

\* process_message without ai_enabled: _process_with_mock
ProcessMessageMock(msg, ctx) ==
    /\ pc = "idle"
    /\ ~ai_enabled
    /\ message' = msg
    /\ previous_request' = ctx.previous_request
    /\ previous_response' = ctx.previous_response
    /\ FreshLocals
    /\ calls' = <<>>
    /\ Return(process_with_mock(msg))
    /\ KeysUnchanged /\ SuspendedUnchanged /\ MatcherUnchanged /\ ServicesUnchanged

\* classify_query returns c: steps 1 and the two early returns, up to route_request
ClassifyReturns(c) ==
    /\ pc = "classify"
    /\ classification' = c
    /\ classifier_count' = c.count
    /\ IF early_return(c) = "help"
       THEN Return(Response(HelpText, "empty")) /\ UNCHANGED calls
       ELSE IF early_return(c) = "over_limit"
       THEN Return(Response(OverLimitText, "empty")) /\ UNCHANGED calls
       ELSE /\ pc' = "route"
            /\ call' = RouteCall(previous_response)
            /\ calls' = Append(calls, call'.kind)
            /\ UNCHANGED <<routing, result, raised, propagated>>
    /\ UNCHANGED <<suggestions, retry_suggestions, idx, enriched_places,
                   retry_enriched, ordered_places, optimized, remaining, iterations>>
    /\ UNCHANGED last_search
    /\ KeysUnchanged /\ SuspendedUnchanged /\ MatcherUnchanged /\ ServicesUnchanged /\ ArgsUnchanged

\* classify_query raises
ClassifyFails(exc) ==
    /\ pc = "classify"
    /\ Raise(pc, exc)
    /\ UNCHANGED <<classification, classifier_count, calls, suggestions, retry_suggestions, idx,
                   enriched_places, retry_enriched, ordered_places, optimized,
                   remaining, iterations>>
    /\ UNCHANGED last_search
    /\ KeysUnchanged /\ SuspendedUnchanged /\ MatcherUnchanged /\ ServicesUnchanged /\ ArgsUnchanged

\* route_request returns r: the rest of _apply_agent_routing, up to suggest_places
RouteReturns(r) ==
    /\ pc = "route"
    /\ LET c == first_suggest_call(message, classification, previous_response, r)
       IN  /\ classification' = [classification EXCEPT !.count = c.count]
           /\ call' = c
    /\ routing' = r
    /\ calls' = Append(calls, call'.kind)
    /\ pc' = "suggest"
    /\ UNCHANGED <<suggestions, retry_suggestions, idx, enriched_places,
                   retry_enriched, ordered_places, optimized, remaining,
                                  iterations, result, raised, propagated,
                   classifier_count>>
    /\ UNCHANGED last_search
    /\ KeysUnchanged /\ SuspendedUnchanged /\ MatcherUnchanged /\ ServicesUnchanged /\ ArgsUnchanged

\* route_request raises
RouteFails(exc) ==
    /\ pc = "route"
    /\ Raise(pc, exc)
    /\ UNCHANGED <<classification, classifier_count, calls, suggestions, retry_suggestions, idx,
                   enriched_places, retry_enriched, ordered_places, optimized,
                   remaining, iterations>>
    /\ UNCHANGED last_search
    /\ KeysUnchanged /\ SuspendedUnchanged /\ MatcherUnchanged /\ ServicesUnchanged /\ ArgsUnchanged

\* StartLoop with "remaining = places" instead of "remaining = places[1:]"
StartLoopAllRemaining(places) ==
    /\ pc' = "optimize"
    /\ optimized' = <<places[1]>>
    /\ remaining' = places
    /\ iterations' = 0

\* optimize_route_greedy from "optimized = [places[0]]" to the first test of
\* "while remaining"
StartLoop(places) ==
    /\ pc' = "optimize"
    /\ optimized' = <<places[1]>>
    /\ remaining' = Tail(places)
    /\ iterations' = 0

\* the code of _process_with_ai after the optimisation step: enriched_places is
\* ordered
FinishOrdered(ordered) ==
    LET f == finish_pipeline(classification, ordered)
    IN  /\ ordered_places' = ordered
        /\ IF f.raised # None THEN Raise("map_assembly", f.raised) ELSE Return(f.value)

\* the code after _enrich_with_retry returned enriched: the optimisation step for
\* more than two places, and what follows it otherwise
Finish(enriched) ==
    /\ enriched_places' = enriched
    /\ IF Len(enriched) > 2
       THEN /\ StartLoop(enriched)
            /\ call' = NoCall
            /\ UNCHANGED <<routing, ordered_places, result, raised, propagated>>
       ELSE /\ FinishOrdered(enriched)
            /\ UNCHANGED <<optimized, remaining, iterations>>

\* the first suggest_places call returns n places: up to the first search_place
SuggestReturns(n) ==
    /\ pc = "suggest"
    /\ LET s == SuggestedPlaces("first", n)
       IN  /\ suggestions' = s
           /\ IF no_suggestions(s)
              THEN /\ Return(fallback_response(NoSuggestionsText))
                   /\ UNCHANGED <<calls, idx>>
              ELSE IF s = <<>>
              THEN \* enrich_places of an empty list returns [] without a search,
                   \* and the shortfall test of _enrich_with_retry follows
                   /\ pc' = "retry_suggest"
                   /\ idx' = 0
                   /\ call' = retry_suggest_call(classification, s, <<>>)
                   /\ calls' = Append(calls, call'.kind)
                   /\ routing' = NoRouting
                   /\ UNCHANGED <<result, raised, propagated>>
              ELSE /\ pc' = "enrich"
                   /\ idx' = 1
                   /\ call' = SearchCall(s[1])
                   /\ calls' = Append(calls, call'.kind)
                   /\ routing' = NoRouting
                   /\ UNCHANGED <<result, raised, propagated>>
    /\ UNCHANGED <<classification, classifier_count, retry_suggestions, enriched_places,
                   retry_enriched, ordered_places, optimized, remaining, iterations>>
    /\ UNCHANGED last_search
    /\ KeysUnchanged /\ SuspendedUnchanged /\ MatcherUnchanged /\ ServicesUnchanged /\ ArgsUnchanged

\* a suggest_places call (first or retry) raises
SuggestFails(exc) ==
    /\ pc \in {"suggest", "retry_suggest"}
    /\ Raise(pc, exc)
    /\ UNCHANGED <<classification, classifier_count, calls, suggestions, retry_suggestions, idx,
                   enriched_places, retry_enriched, ordered_places, optimized,
                   remaining, iterations>>
    /\ UNCHANGED last_search
    /\ KeysUnchanged /\ SuspendedUnchanged /\ MatcherUnchanged /\ ServicesUnchanged /\ ArgsUnchanged

\* search_place of the first enrich_places round ends with outcome o: the loop up to
\* the next search_place, or the shortfall test and what follows it
SearchReturns(o) ==
    /\ pc = "enrich"
    /\ LET enriched == enrich_places_append(enriched_places,
                                            enrich_place(suggestions[idx], Location, o))
       IN  IF idx < Len(suggestions)
           THEN /\ enriched_places' = enriched
                /\ idx' = idx + 1
                /\ call' = SearchCall(suggestions[idx + 1])
                /\ calls' = Append(calls, call'.kind)
                /\ UNCHANGED <<pc, routing, ordered_places, optimized, remaining,
                                  iterations, result, raised, propagated>>
           ELSE IF needs_retry(classification, enriched)
           THEN /\ enriched_places' = enriched
                /\ idx' = 0
                /\ pc' = "retry_suggest"
                /\ call' = retry_suggest_call(classification, suggestions, enriched)
                /\ calls' = Append(calls, call'.kind)
                /\ UNCHANGED <<routing, ordered_places, optimized, remaining,
                                  iterations, result, raised, propagated>>
           ELSE /\ Finish(enriched)
                /\ UNCHANGED <<idx, calls>>
    /\ UNCHANGED <<classification, classifier_count, suggestions, retry_suggestions,
                   retry_enriched>>
    /\ last_search' = [query |-> suggestions[idx].name, outcome |-> o]
    /\ KeysUnchanged /\ SuspendedUnchanged /\ MatcherUnchanged /\ ServicesUnchanged /\ ArgsUnchanged

\* the retry suggest_places call returns n places
RetrySuggestReturns(n) ==
    /\ pc = "retry_suggest"
    /\ LET s == SuggestedPlaces("retry", n)
       IN  /\ retry_suggestions' = s
           /\ IF s = <<>>
              THEN /\ Finish(enriched_places \o <<>>)
                   /\ UNCHANGED <<calls, idx>>
              ELSE /\ pc' = "retry_enrich"
                   /\ idx' = 1
                   /\ call' = SearchCall(s[1])
                   /\ calls' = Append(calls, call'.kind)
                   /\ UNCHANGED <<routing, enriched_places, ordered_places, optimized,
                                  remaining,
                                  iterations, result,
                                  raised, propagated>>
    /\ UNCHANGED <<classification, classifier_count, suggestions, retry_enriched>>
    /\ UNCHANGED last_search
    /\ KeysUnchanged /\ SuspendedUnchanged /\ MatcherUnchanged /\ ServicesUnchanged /\ ArgsUnchanged

\* search_place of the retry enrich_places round ends with outcome o
RetrySearchReturns(o) ==
    /\ pc = "retry_enrich"
    /\ LET found == enrich_places_append(retry_enriched,
                                         enrich_place(retry_suggestions[idx], Location, o))
       IN  /\ retry_enriched' = found
           /\ IF idx < Len(retry_suggestions)
              THEN /\ idx' = idx + 1
                   /\ call' = SearchCall(retry_suggestions[idx + 1])
                   /\ calls' = Append(calls, call'.kind)
                   /\ UNCHANGED <<pc, routing, enriched_places, ordered_places,
                                  optimized, remaining,
                                  iterations, result,
                                  raised, propagated>>
              ELSE /\ Finish(enriched_places \o found)
                   /\ UNCHANGED <<idx, calls>>
    /\ UNCHANGED <<classification, classifier_count, suggestions, retry_suggestions>>
    /\ last_search' = [query |-> retry_suggestions[idx].name, outcome |-> o]
    /\ KeysUnchanged /\ SuspendedUnchanged /\ MatcherUnchanged /\ ServicesUnchanged /\ ArgsUnchanged

\* one pass of the body of "while remaining"; when it leaves remaining empty,
\* optimize_route_greedy returns optimized
OptimizeStep ==
    /\ pc = "optimize"
    /\ remaining # <<>>
    /\ LET current == optimized[Len(optimized)]
           nearest == nearest_place(current, remaining)
       IN  /\ optimized' = Append(optimized, nearest)
           /\ remaining' = ListRemove(remaining, nearest)
    /\ iterations' = iterations + 1
    /\ IF remaining' = <<>>
       THEN pc' = "optimized" /\ ordered_places' = optimized'
       ELSE UNCHANGED <<pc, ordered_places>>
    /\ UNCHANGED <<classification, classifier_count, routing, call, calls, suggestions,
                   retry_suggestions, idx, enriched_places, retry_enriched, result,
                   last_search, raised, propagated>>
    /\ KeysUnchanged /\ SuspendedUnchanged /\ MatcherUnchanged /\ ServicesUnchanged /\ ArgsUnchanged

\* _process_with_ai after optimize_route_greedy returned: map assembly and the
\* response
MapAssembly ==
    /\ pc = "optimized"
    /\ ai_enabled
    /\ FinishOrdered(ordered_places)
    /\ UNCHANGED <<classification, classifier_count, calls, suggestions,
                   retry_suggestions, idx, enriched_places, retry_enriched, optimized,
                   remaining, iterations, last_search>>
    /\ KeysUnchanged /\ SuspendedUnchanged /\ MatcherUnchanged /\ ServicesUnchanged /\ ArgsUnchanged

\* send_message hands the value to the client: the call of process_message is over
\* and nothing of it is kept
SendMessageReturns ==
    /\ pc = "returned"
    /\ pc' = "idle"
    /\ message' = {}
    /\ previous_request' = None
    /\ previous_response' = NoText
    /\ FreshLocals
    /\ routing' = NoRouting
    /\ call' = NoCall
    /\ calls' = <<>>
    /\ result' = NoResult
    /\ raised' = NoRaise
    /\ propagated' = None
    /\ KeysUnchanged /\ SuspendedUnchanged /\ MatcherUnchanged /\ ServicesUnchanged

Next ==
    \/ \E msg \in Messages, ctx \in PrevContexts : ProcessMessageAI(msg, ctx)
    \/ \E msg \in Messages, ctx \in PrevContexts : ProcessMessageMock(msg, ctx)
    \/ \E c \in Classifications : ClassifyReturns(c)
    \/ \E exc \in CapabilityErrors : ClassifyFails(exc)
    \/ \E r \in RoutingDecisions : RouteReturns(r)
    \/ \E exc \in CapabilityErrors : RouteFails(exc)
    \/ \E n \in 0..MaxSuggest : SuggestReturns(n)
    \/ \E exc \in CapabilityErrors : SuggestFails(exc)
    \/ \E o \in SearchOutcomes : SearchReturns(o)
    \/ \E n \in 0..MaxSuggest : RetrySuggestReturns(n)
    \/ \E o \in SearchOutcomes : RetrySearchReturns(o)
    \/ OptimizeStep
    \/ MapAssembly
    \/ SendMessageReturns

Spec == Init /\ [][Next]_vars

----------------------------------------------------------------------------
(* optimize_route_greedy on its own: a call with any list of places *)

\* optimize_route_greedy(places) is called; places is held in enriched_places
InitOptimizer ==
    /\ openai_api_key = FALSE
    /\ google_api_key = FALSE
    /\ ai_enabled = FALSE
    /\ pc = "call_optimize"
    /\ message = {}
    /\ previous_request = None
    /\ previous_response = NoText
    /\ classification = NoClassification
    /\ classifier_count = 0
    /\ routing = NoRouting
    /\ call = NoCall
    /\ calls = <<>>
    /\ suggestions = <<>>
    /\ retry_suggestions = <<>>
    /\ idx = 0
    /\ enriched_places \in RouteInputs
    /\ retry_enriched = <<>>
    /\ ordered_places = <<>>
    /\ optimized = <<>>
    /\ remaining = <<>>
    /\ iterations = 0
    /\ result = NoResult
    /\ last_search = NoSearch
    /\ raised = NoRaise
    /\ propagated = None
    /\ suspended = NotStarted
    /\ city_arg = <<>>
    /\ address_arg = <<>>
    /\ matched = None
    /\ full_route_link = None
    /\ chat_sessions_db = <<>>
    /\ users_db = <<>>
    /\ auth_sessions_db = <<>>
    /\ http_exception = NoException
    /\ requests = <<>>

\* optimize_route_greedy from its entry to the first test of "while remaining", or to
\* "return places" for at most two places
OptimizeRouteGreedy ==
    /\ pc = "call_optimize"
    /\ IF Len(enriched_places) <= 2
       THEN /\ pc' = "optimized"
            /\ ordered_places' = no_optimization(enriched_places)
            /\ UNCHANGED <<optimized, remaining, iterations>>
       ELSE /\ StartLoop(enriched_places)
            /\ UNCHANGED ordered_places
    /\ UNCHANGED <<classification, classifier_count, routing, call, calls, suggestions,
                   retry_suggestions, idx, enriched_places, retry_enriched, result,
                   last_search, raised, propagated>>
    /\ KeysUnchanged /\ SuspendedUnchanged /\ MatcherUnchanged /\ ServicesUnchanged /\ ArgsUnchanged

NextOptimizer ==
    \/ OptimizeRouteGreedy
    \/ OptimizeStep

SpecOptimizer == InitOptimizer /\ [][NextOptimizer]_vars

----------------------------------------------------------------------------
(* Two process_message coroutines on one event loop *)

\* the locals of the coroutine that is running
running ==
    [pc |-> pc,
     message |-> message,
     previous_request |-> previous_request,
     previous_response |-> previous_response,
     classification |-> classification,
     classifier_count |-> classifier_count,
     routing |-> routing,
     call |-> call,
     calls |-> calls,
     suggestions |-> suggestions,
     retry_suggestions |-> retry_suggestions,
     idx |-> idx,
     enriched_places |-> enriched_places,
     retry_enriched |-> retry_enriched,
     ordered_places |-> ordered_places,
     optimized |-> optimized,
     remaining |-> remaining,
     iterations |-> iterations,
     result |-> result,
     last_search |-> last_search,
     raised |-> raised,
     propagated |-> propagated]

\* the event loop resuming the other coroutine while enriched_places is kept on the
\* service object
ResumeSharingEnriched ==
    /\ suspended' = running
    /\ pc' = suspended.pc
    /\ message' = suspended.message
    /\ previous_request' = suspended.previous_request
    /\ previous_response' = suspended.previous_response
    /\ classification' = suspended.classification
    /\ classifier_count' = suspended.classifier_count
    /\ routing' = suspended.routing
    /\ call' = suspended.call
    /\ calls' = suspended.calls
    /\ suggestions' = suspended.suggestions
    /\ retry_suggestions' = suspended.retry_suggestions
    /\ idx' = suspended.idx
    /\ retry_enriched' = suspended.retry_enriched
    /\ ordered_places' = suspended.ordered_places
    /\ optimized' = suspended.optimized
    /\ remaining' = suspended.remaining
    /\ iterations' = suspended.iterations
    /\ result' = suspended.result
    /\ last_search' = suspended.last_search
    /\ raised' = suspended.raised
    /\ propagated' = suspended.propagated
    /\ UNCHANGED enriched_places
    /\ KeysUnchanged /\ MatcherUnchanged /\ ServicesUnchanged

\* at an await, or between two requests, the event loop resumes the other coroutine:
\* the locals of the running one stay in its frame
Resume ==
    /\ suspended' = running
    /\ pc' = suspended.pc
    /\ message' = suspended.message
    /\ previous_request' = suspended.previous_request
    /\ previous_response' = suspended.previous_response
    /\ classification' = suspended.classification
    /\ classifier_count' = suspended.classifier_count
    /\ routing' = suspended.routing
    /\ call' = suspended.call
    /\ calls' = suspended.calls
    /\ suggestions' = suspended.suggestions
    /\ retry_suggestions' = suspended.retry_suggestions
    /\ idx' = suspended.idx
    /\ enriched_places' = suspended.enriched_places
    /\ retry_enriched' = suspended.retry_enriched
    /\ ordered_places' = suspended.ordered_places
    /\ optimized' = suspended.optimized
    /\ remaining' = suspended.remaining
    /\ iterations' = suspended.iterations
    /\ result' = suspended.result
    /\ last_search' = suspended.last_search
    /\ raised' = suspended.raised
    /\ propagated' = suspended.propagated
    /\ KeysUnchanged /\ MatcherUnchanged /\ ServicesUnchanged

\* the requests and the capability answers of the two coroutines
ConcurrentContexts ==
    {[previous_request |-> None, previous_response |-> NoText],
     [previous_request |-> PreviousRequest,
      previous_response |-> response_text(PreviousPlaces(1))]}

ConcurrentClassifications ==
    {[is_route_request |-> FALSE, count |-> 1, theme |-> None, travel_mode |-> "walking"]}
    \cup {[is_route_request |-> TRUE, count |-> c, theme |-> None,
            travel_mode |-> "walking"] : c \in {1, 2}}

ConcurrentDecisions ==
    {[is_new_request |-> TRUE, operation_type |-> "new", count_adjustment |-> <<>>],
     [is_new_request |-> FALSE, operation_type |-> "add", count_adjustment |-> <<1>>]}

ConcurrentOutcomes ==
    {[status |-> "no_results", address |-> <<>>],
     [status |-> "found", address |-> AddressInCity]}

NextConcurrent ==
    \/ \E ctx \in ConcurrentContexts : ProcessMessageAI({"bar", "center"}, ctx)
    \/ \E ctx \in ConcurrentContexts : ProcessMessageMock({"bar", "center"}, ctx)
    \/ \E c \in ConcurrentClassifications : ClassifyReturns(c)
    \/ ClassifyFails("APIError")
    \/ \E r \in ConcurrentDecisions : RouteReturns(r)
    \/ \E n \in {1, 2} : SuggestReturns(n)
    \/ \E o \in ConcurrentOutcomes : SearchReturns(o)
    \/ RetrySuggestReturns(1)
    \/ \E o \in ConcurrentOutcomes : RetrySearchReturns(o)
    \/ SendMessageReturns
    \/ Resume

SpecConcurrent == Init /\ [][NextConcurrent]_vars

----------------------------------------------------------------------------
(* A turn whose capability calls all return or fail in the end *)

LiveClassifications ==
    [is_route_request : BOOLEAN, count : {MaxCount, MaxPlaces + 1},
     theme : {None}, travel_mode : {"walking"}]

\* the steps of a turn in flight: a capability call returns or fails, the optimizer
\* loop runs once more, the map is assembled, the answer is sent
TurnStep ==
    \/ \E c \in LiveClassifications : ClassifyReturns(c)
    \/ ClassifyFails("APIError")
    \/ \E r \in ConcurrentDecisions : RouteReturns(r)
    \/ RouteFails("APIError")
    \/ \E n \in 0..MaxSuggest : SuggestReturns(n)
    \/ SuggestFails("ValidationError")
    \/ \E o \in ConcurrentOutcomes : SearchReturns(o)
    \/ \E n \in 0..MaxSuggest : RetrySuggestReturns(n)
    \/ \E o \in ConcurrentOutcomes : RetrySearchReturns(o)
    \/ OptimizeStep
    \/ MapAssembly
    \/ SendMessageReturns

NextLive ==
    \/ \E ctx \in ConcurrentContexts : ProcessMessageAI({"bar", "center"}, ctx)
    \/ \E ctx \in ConcurrentContexts : ProcessMessageMock({"bar", "center"}, ctx)
    \/ TurnStep

SpecLive == Init /\ [][NextLive]_vars /\ WF_vars(TurnStep)

----------------------------------------------------------------------------
(* Turns whose routing decisions carry the reasoning the router gave *)

\* the length a reasoning must exceed
ReasoningFloor == 10

\* AgentRoutingDecision as response_format parses it: reasoning is a required str of
\* any length, held here by its length
ParsedDecisions ==
    [is_new_request : BOOLEAN, operation_type : {"new", "add", "replace_last"},
     count_adjustment : {<<>>, <<1>>},
     reasoning : {0, ReasoningFloor, ReasoningFloor + 1}]

NextRouting ==
    \/ \E ctx \in ConcurrentContexts : ProcessMessageAI({"bar", "center"}, ctx)
    \/ \E ctx \in ConcurrentContexts : ProcessMessageMock({"bar", "center"}, ctx)
    \/ \E c \in LiveClassifications : ClassifyReturns(c)
    \/ ClassifyFails("APIError")
    \/ \E r \in ParsedDecisions : RouteReturns(r)
    \/ RouteFails("ValidationError")
    \/ \E n \in 0..MaxSuggest : SuggestReturns(n)
    \/ SuggestFails("APIError")
    \/ \E o \in ConcurrentOutcomes : SearchReturns(o)
    \/ \E n \in 0..MaxSuggest : RetrySuggestReturns(n)
    \/ \E o \in ConcurrentOutcomes : RetrySearchReturns(o)
    \/ OptimizeStep
    \/ MapAssembly
    \/ SendMessageReturns

SpecRouting == Init /\ [][NextRouting]_vars

----------------------------------------------------------------------------
(* Turns with any message text, the empty one included *)

\* ChatMessageRequest.message is a str of any length
AnyMessages == {EmptyMessage, {"bar", "center"}}

\* no previous response, one without a numbered list, and one listing a place
ModificationContexts ==
    {[previous_request |-> None, previous_response |-> NoText],
     [previous_request |-> PreviousRequest,
      previous_response |-> response_text(PreviousPlaces(0))],
     [previous_request |-> PreviousRequest,
      previous_response |-> response_text(PreviousPlaces(1))]}

ModificationDecisions ==
    [is_new_request : BOOLEAN, operation_type : {"new", "add", "replace_last"},
     count_adjustment : {<<>>, <<1>>}]

NextModification ==
    \/ \E msg \in AnyMessages, ctx \in ModificationContexts : ProcessMessageAI(msg, ctx)
    \/ \E msg \in AnyMessages, ctx \in ModificationContexts : ProcessMessageMock(msg, ctx)
    \/ \E c \in LiveClassifications : ClassifyReturns(c)
    \/ ClassifyFails("APIError")
    \/ \E r \in ModificationDecisions : RouteReturns(r)
    \/ RouteFails("APIError")
    \/ \E n \in 0..MaxSuggest : SuggestReturns(n)
    \/ SuggestFails("APIError")
    \/ \E o \in ConcurrentOutcomes : SearchReturns(o)
    \/ \E n \in 0..MaxSuggest : RetrySuggestReturns(n)
    \/ \E o \in ConcurrentOutcomes : RetrySearchReturns(o)
    \/ OptimizeStep
    \/ MapAssembly
    \/ SendMessageReturns

SpecModification == Init /\ [][NextModification]_vars

----------------------------------------------------------------------------
(* generate_full_route_link on its own: a call with any list of places *)

\* EnrichedPlace values with and without a googleMapsUri
LinkPlaces ==
    [name : {<<"first", 1>>}, address : {AddressInCity}, lat : 0..MaxLat,
     google_maps_link : {<<>>, <<"https://maps.google.com/?cid=1">>}]

LinkInputs == UNION {[1..n -> LinkPlaces] : n \in 0..MaxRoute}

TravelModes == {"walking", "driving"}

\* generate_full_route_link(places, travel_mode) is called; places is held in
\* ordered_places and travel_mode in classification.travel_mode
InitLink ==
    /\ openai_api_key = FALSE
    /\ google_api_key = FALSE
    /\ ai_enabled = FALSE
    /\ pc = "call_link"
    /\ message = {}
    /\ previous_request = None
    /\ previous_response = NoText
    /\ classification \in {[NoClassification EXCEPT !.travel_mode = m] : m \in TravelModes}
    /\ classifier_count = 0
    /\ routing = NoRouting
    /\ call = NoCall
    /\ calls = <<>>
    /\ suggestions = <<>>
    /\ retry_suggestions = <<>>
    /\ idx = 0
    /\ enriched_places = <<>>
    /\ retry_enriched = <<>>
    /\ ordered_places \in LinkInputs
    /\ optimized = <<>>
    /\ remaining = <<>>
    /\ iterations = 0
    /\ result = NoResult
    /\ last_search = NoSearch
    /\ raised = NoRaise
    /\ propagated = None
    /\ suspended = NotStarted
    /\ city_arg = <<>>
    /\ address_arg = <<>>
    /\ matched = None
    /\ full_route_link = None
    /\ chat_sessions_db = <<>>
    /\ users_db = <<>>
    /\ auth_sessions_db = <<>>
    /\ http_exception = NoException
    /\ requests = <<>>

\* generate_full_route_link from its entry to its return
GenerateFullRouteLink ==
    /\ pc = "call_link"
    /\ pc' = "linked"
    /\ full_route_link' = generate_full_route_link(ordered_places, classification.travel_mode)
    /\ UNCHANGED <<message, previous_request, previous_response, classification,
                   classifier_count, routing, call, calls, suggestions, retry_suggestions,
                   idx, enriched_places, retry_enriched, ordered_places, optimized,
                   remaining, iterations, result, last_search, raised, propagated>>
    /\ KeysUnchanged /\ SuspendedUnchanged /\ MatcherUnchanged
    /\ SessionStoreUnchanged /\ AuthUnchanged /\ UNCHANGED <<http_exception, requests>>

NextLink == GenerateFullRouteLink

SpecLink == InitLink /\ [][NextLink]_vars

----------------------------------------------------------------------------
(* ChatSessionService: the in-memory store of chat sessions *)

MaxSessionOps == 4

\* the ids _generate_session_id can return; two calls may return the same id
SessionIds == {1, 2}

\* HTTPException(status_code=404, detail="Session not found")
SessionNotFound == [status_code |-> 404, detail |-> "Session not found"]

\* datetime.now() of a request: requests are served one after the other
Now == Len(requests) + 1

\* "messages" of a new session and of an updated one
NewMessages == <<>>
UpdatedMessages == <<"Top 5 bars in Munich">>

\* sessions_db[session_id] = session
StoreSession(db, session_id, session) ==
    [j \in DOMAIN db \cup {session_id} |-> IF j = session_id THEN session ELSE db[j]]

\* "session = self.sessions_db.get(session_id); if not session": a stored session is a
\* dict of 7 keys, so the test fails exactly for the ids that are stored
SessionMissing(db, session_id) == session_id \notin DOMAIN db

\* create_session: the store after the call
create_session(db, session_id, messages, now) ==
    [db |-> StoreSession(db, session_id,
                         [id |-> session_id, title |-> "New chat", messages |-> messages,
                          workspaceContent |-> "empty", is_favorite |-> FALSE,
                          created_at |-> now, updated_at |-> now]),
     exception |-> NoException]

\* update_session: the store after the call and the exception raised
update_session(db, session_id, messages, now) ==
    IF SessionMissing(db, session_id)
    THEN [db |-> db, exception |-> SessionNotFound]
    ELSE [db |-> StoreSession(db, session_id,
                              [db[session_id] EXCEPT !.messages = messages,
                                                     !.workspaceContent = "map",
                                                     !.updated_at = now]),
          exception |-> NoException]

\* toggle_favorite: the store after the call and the exception raised
toggle_favorite(db, session_id, now) ==
    IF SessionMissing(db, session_id)
    THEN [db |-> db, exception |-> SessionNotFound]
    ELSE [db |-> StoreSession(db, session_id,
                              [db[session_id] EXCEPT !.is_favorite = ~@,
                                                     !.updated_at = now]),
          exception |-> NoException]

\* delete_session emptying the store
DeleteSessionClearsStore(db, session_id) ==
    IF SessionMissing(db, session_id)
    THEN [db |-> db, exception |-> SessionNotFound]
    ELSE [db |-> <<>>, exception |-> NoException]

\* delete_session: the store after the call and the exception raised
delete_session(db, session_id) ==
    IF SessionMissing(db, session_id)
    THEN [db |-> db, exception |-> SessionNotFound]
    ELSE [db |-> [j \in DOMAIN db \ {session_id} |-> db[j]], exception |-> NoException]

\* is_favorite of a session, if it is stored
Favorite(db, session_id) ==
    IF session_id \in DOMAIN db THEN <<db[session_id].is_favorite>> ELSE <<>>

\* what the log of requests keeps of a request to the session store
SessionRequest(op, session_id, outcome) ==
    [op |-> op, id |-> session_id, status_code |-> outcome.exception.status_code,
     before |-> Favorite(chat_sessions_db, session_id),
     after |-> Favorite(outcome.db, session_id)]

\* a request to the session store is served
ServeSession(op, session_id, outcome) ==
    /\ pc = "store"
    /\ Len(requests) < MaxSessionOps
    /\ chat_sessions_db' = outcome.db
    /\ http_exception' = outcome.exception
    /\ requests' = Append(requests, SessionRequest(op, session_id, outcome))
    /\ UNCHANGED <<pc, message, previous_request, previous_response, classification,
                   classifier_count, routing, call, calls, suggestions, retry_suggestions,
                   idx, enriched_places, retry_enriched, ordered_places, optimized,
                   remaining, iterations, result, last_search, raised, propagated>>
    /\ KeysUnchanged /\ SuspendedUnchanged /\ MatcherUnchanged
    /\ LinkUnchanged /\ AuthUnchanged

CreateSession(session_id) ==
    ServeSession("create", session_id,
                 create_session(chat_sessions_db, session_id, NewMessages, Now))

UpdateSession(session_id) ==
    ServeSession("update", session_id,
                 update_session(chat_sessions_db, session_id, UpdatedMessages, Now))

ToggleFavorite(session_id) ==
    ServeSession("toggle_favorite", session_id,
                 toggle_favorite(chat_sessions_db, session_id, Now))

DeleteSession(session_id) ==
    ServeSession("delete", session_id, delete_session(chat_sessions_db, session_id))

\* ChatSessionService() has been constructed
InitSessions ==
    /\ openai_api_key = FALSE
    /\ google_api_key = FALSE
    /\ ai_enabled = FALSE
    /\ pc = "store"
    /\ message = {}
    /\ previous_request = None
    /\ previous_response = NoText
    /\ classification = NoClassification
    /\ classifier_count = 0
    /\ routing = NoRouting
    /\ call = NoCall
    /\ calls = <<>>
    /\ suggestions = <<>>
    /\ retry_suggestions = <<>>
    /\ idx = 0
    /\ enriched_places = <<>>
    /\ retry_enriched = <<>>
    /\ ordered_places = <<>>
    /\ optimized = <<>>
    /\ remaining = <<>>
    /\ iterations = 0
    /\ result = NoResult
    /\ last_search = NoSearch
    /\ raised = NoRaise
    /\ propagated = None
    /\ suspended = NotStarted
    /\ city_arg = <<>>
    /\ address_arg = <<>>
    /\ matched = None
    /\ full_route_link = None
    /\ chat_sessions_db = <<>>
    /\ users_db = <<>>
    /\ auth_sessions_db = <<>>
    /\ http_exception = NoException
    /\ requests = <<>>

NextSessions ==
    \/ \E session_id \in SessionIds : CreateSession(session_id)
    \/ \E session_id \in SessionIds : UpdateSession(session_id)
    \/ \E session_id \in SessionIds : ToggleFavorite(session_id)
    \/ \E session_id \in SessionIds : DeleteSession(session_id)

SpecSessions == InitSessions /\ [][NextSessions]_vars

----------------------------------------------------------------------------
(* AuthService: the in-memory stores of users and of token sessions *)

MaxAuthOps == 3

\* the tokens _generate_token can return (two calls may return the same token), and
\* the str ""
AuthTokens == {1, 2}
EmptyToken == 0

\* the ids "user-{millis}" of two requests may be the same
UserIds == {1, 2}

Emails == {"ann@example.com", "bob@example.com"}

\* the token argument of logout: absent (None) or a str
TokenArguments == {<<>>} \cup {<<t>> : t \in AuthTokens \cup {EmptyToken}}

\* HTTPException(status_code=401, detail="Invalid session")
InvalidSession == [status_code |-> 401, detail |-> "Invalid session"]

\* HTTPException(status_code=400, detail="User already exists")
UserAlreadyExists == [status_code |-> 400, detail |-> "User already exists"]

\* d[key] = value
DictSet(d, key, value) == [j \in DOMAIN d \cup {key} |-> IF j = key THEN value ELSE d[j]]

\* d.pop(key, None)
DictPop(d, key) == [j \in DOMAIN d \ {key} |-> d[j]]

\* User(id=..., email=email).model_dump()
UserData(user_id, email) == [id |-> user_id, email |-> email, auth_provider |-> "email"]

\* login: both stores after the call and the token returned
login(users, sessions, email, user_id, token) ==
    [users |-> DictSet(users, user_id,
                       [user |-> UserData(user_id, email), password |-> "password"]),
     sessions |-> DictSet(sessions, token, UserData(user_id, email)),
     exception |-> NoException,
     token |-> <<token>>]

\* register: as login, unless a stored user has the email
register(users, sessions, email, user_id, token) ==
    IF \E id \in DOMAIN users : users[id].user.email = email
    THEN [users |-> users, sessions |-> sessions, exception |-> UserAlreadyExists,
          token |-> <<>>]
    ELSE login(users, sessions, email, user_id, token)

\* Python truthiness of token (str | None)
TokenTruthy(token) == token # <<>> /\ token[1] # EmptyToken

\* logout dropping every session
LogoutAllSessions(users, sessions, token) ==
    [users |-> users,
     sessions |-> IF TokenTruthy(token) THEN <<>> ELSE sessions,
     exception |-> NoException,
     token |-> <<>>]

\* logout: "if token: self.sessions_db.pop(token, None)"
logout(users, sessions, token) ==
    [users |-> users,
     sessions |-> IF TokenTruthy(token) THEN DictPop(sessions, token[1]) ELSE sessions,
     exception |-> NoException,
     token |-> <<>>]

\* get_current_user: 401 unless the token has a session (a stored session is the dump
\* of a User, never empty)
get_current_user(users, sessions, token) ==
    [users |-> users,
     sessions |-> sessions,
     exception |-> IF token \notin DOMAIN sessions THEN InvalidSession ELSE NoException,
     token |-> <<>>]

\* what the log of requests keeps of a request to the auth service: the token passed,
\* the status and the token issued
AuthRequest(op, token, outcome) ==
    [op |-> op, token |-> token, status_code |-> outcome.exception.status_code,
     issued |-> outcome.token]

\* a request to the auth service is served
ServeAuth(op, token, outcome) ==
    /\ pc = "auth"
    /\ Len(requests) < MaxAuthOps
    /\ users_db' = outcome.users
    /\ auth_sessions_db' = outcome.sessions
    /\ http_exception' = outcome.exception
    /\ requests' = Append(requests, AuthRequest(op, token, outcome))
    /\ UNCHANGED <<pc, message, previous_request, previous_response, classification,
                   classifier_count, routing, call, calls, suggestions, retry_suggestions,
                   idx, enriched_places, retry_enriched, ordered_places, optimized,
                   remaining, iterations, result, last_search, raised, propagated>>
    /\ KeysUnchanged /\ SuspendedUnchanged /\ MatcherUnchanged
    /\ LinkUnchanged /\ SessionStoreUnchanged

Login(email, user_id, token) ==
    ServeAuth("login", <<>>, login(users_db, auth_sessions_db, email, user_id, token))

Register(email, user_id, token) ==
    ServeAuth("register", <<>>, register(users_db, auth_sessions_db, email, user_id, token))

Logout(token) ==
    ServeAuth("logout", token, logout(users_db, auth_sessions_db, token))

GetCurrentUser(token) ==
    ServeAuth("get_current_user", <<token>>,
              get_current_user(users_db, auth_sessions_db, token))

\* AuthService() has been constructed
InitAuth ==
    /\ openai_api_key = FALSE
    /\ google_api_key = FALSE
    /\ ai_enabled = FALSE
    /\ pc = "auth"
    /\ message = {}
    /\ previous_request = None
    /\ previous_response = NoText
    /\ classification = NoClassification
    /\ classifier_count = 0
    /\ routing = NoRouting
    /\ call = NoCall
    /\ calls = <<>>
    /\ suggestions = <<>>
    /\ retry_suggestions = <<>>
    /\ idx = 0
    /\ enriched_places = <<>>
    /\ retry_enriched = <<>>
    /\ ordered_places = <<>>
    /\ optimized = <<>>
    /\ remaining = <<>>
    /\ iterations = 0
    /\ result = NoResult
    /\ last_search = NoSearch
    /\ raised = NoRaise
    /\ propagated = None
    /\ suspended = NotStarted
    /\ city_arg = <<>>
    /\ address_arg = <<>>
    /\ matched = None
    /\ full_route_link = None
    /\ chat_sessions_db = <<>>
    /\ users_db = <<>>
    /\ auth_sessions_db = <<>>
    /\ http_exception = NoException
    /\ requests = <<>>

NextAuth ==
    \/ \E email \in Emails, user_id \in UserIds, token \in AuthTokens :
           Login(email, user_id, token)
    \/ \E email \in Emails, user_id \in UserIds, token \in AuthTokens :
           Register(email, user_id, token)
    \/ \E token \in TokenArguments : Logout(token)
    \/ \E token \in AuthTokens \cup {EmptyToken} : GetCurrentUser(token)

SpecAuth == InitAuth /\ [][NextAuth]_vars

----------------------------------------------------------------------------
(* _is_city_in_address on its own: a call with any city and any address *)

MaxTokens == 2

\* requested cities
Moscow ==
    <<"M", "o", "s", "c", "o", "w">>
Ulm ==
    <<"U", "l", "m">>
Thessaloniki ==
    <<"T", "h", "e", "s", "s", "a", "l", "o", "n", "i", "k", "i">>
Muenchen ==
    <<"M", "ü", "n", "c", "h", "e", "n">>

MatcherCities == {Location, Moscow, Ulm, Thessaloniki, Muenchen, <<>>}

\* parts of a formattedAddress
TokenMuenchen ==
    <<"M", "ü", "n", "c", "h", "e", "n">>
TokenMunchen ==
    <<"M", "u", "n", "c", "h", "e", "n">>
TokenMunichUpper ==
    <<"M", "U", "N", "I", "C", "H">>
TokenMoskva ==
    <<"M", "o", "s", "k", "v", "a">>
TokenStuttgart ==
    <<"S", "t", "u", "t", "t", "g", "a", "r", "t">>
TokenStreet ==
    <<"u", "l", ".">>
TokenUhm ==
    <<"U", "h", "m">>
TokenTessalonique ==
    <<"T", "e", "s", "s", "a", "l", "o", "n", "i", "q", "u", "e">>
TokenTesalonique ==
    <<"T", "e", "s", "a", "l", "o", "n", "i", "q", "u", "e">>
TokenGermany ==
    <<"G", "e", "r", "m", "a", "n", "y">>

AddressTokens ==
    {TokenMuenchen, TokenMunchen, TokenMunichUpper, TokenMoskva, TokenStuttgart,
     TokenStreet, TokenUhm, TokenTessalonique, TokenTesalonique, TokenGermany}

\* whole addresses
AddressDiacritic ==
    <<"M", "a", "r", "i", "e", "n", "p", "l", "a", "t", "z", ",", " ", "M", "ü", "n",
      "c", "h", "e", "n", ",", " ", "G", "e", "r", "m", "a", "n", "y">>
AddressEditDistance ==
    <<"u", "l", ".", " ", "T", "v", "e", "r", "s", "k", "a", "y", "a", ",", " ", "M",
      "o", "s", "k", "v", "a">>
AddressOtherCity ==
    <<"H", "a", "u", "p", "t", "s", "t", "r", "a", "ß", "e", ",", " ", "S", "t", "u",
      "t", "t", "g", "a", "r", "t", ",", " ", "G", "e", "r", "m", "a", "n", "y">>

RECURSIVE JoinTokens(_)
\* ", ".join(tokens)
JoinTokens(tokens) ==
    IF tokens = <<>> THEN <<>>
    ELSE IF Len(tokens) = 1 THEN tokens[1]
    ELSE tokens[1] \o <<",", " ">> \o JoinTokens(Tail(tokens))

MatcherAddresses ==
    {AddressDiacritic, AddressEditDistance, AddressOtherCity}
    \cup {JoinTokens(tokens) : tokens \in UNION {[1..n -> AddressTokens] : n \in 0..MaxTokens}}

\* _is_city_in_address(requested_city, address) is called
InitMatcher ==
    /\ openai_api_key = FALSE
    /\ google_api_key = FALSE
    /\ ai_enabled = FALSE
    /\ pc = "call_match"
    /\ message = {}
    /\ previous_request = None
    /\ previous_response = NoText
    /\ classification = NoClassification
    /\ classifier_count = 0
    /\ routing = NoRouting
    /\ call = NoCall
    /\ calls = <<>>
    /\ suggestions = <<>>
    /\ retry_suggestions = <<>>
    /\ idx = 0
    /\ enriched_places = <<>>
    /\ retry_enriched = <<>>
    /\ ordered_places = <<>>
    /\ optimized = <<>>
    /\ remaining = <<>>
    /\ iterations = 0
    /\ result = NoResult
    /\ last_search = NoSearch
    /\ raised = NoRaise
    /\ propagated = None
    /\ suspended = NotStarted
    /\ city_arg \in MatcherCities
    /\ address_arg \in MatcherAddresses
    /\ matched = None
    /\ full_route_link = None
    /\ chat_sessions_db = <<>>
    /\ users_db = <<>>
    /\ auth_sessions_db = <<>>
    /\ http_exception = NoException
    /\ requests = <<>>

\* _is_city_in_address from its entry to its return
IsCityInAddress ==
    /\ pc = "call_match"
    /\ pc' = "matched"
    /\ matched' = is_city_in_address(city_arg, address_arg)
    /\ UNCHANGED <<message, previous_request, previous_response, classification,
                   classifier_count, routing, call, calls, suggestions, retry_suggestions,
                   idx, enriched_places, retry_enriched, ordered_places, optimized,
                   remaining, iterations, result, last_search, raised, propagated,
                   city_arg, address_arg>>
    /\ KeysUnchanged /\ SuspendedUnchanged /\ ServicesUnchanged

NextMatcher == IsCityInAddress

SpecMatcher == InitMatcher /\ [][NextMatcher]_vars

----------------------------------------------------------------------------
(* Properties of a turn *)

\* how many calls of a kind the turn has issued
CallCount(kind) == Cardinality({i \in 1..Len(calls) : calls[i] = kind})

\* how many enrich_places rounds issued a search
EnrichRounds ==
    Cardinality({i \in 2..Len(calls) : calls[i] = "search" /\ calls[i - 1] = "suggest"})

\* classify_query has returned in this turn
Classified == classifier_count > 0

\* the first enrich_places round of this turn is complete
FirstRoundDone ==
    \/ pc \in {"retry_suggest", "retry_enrich"}
    \/ pc \in {"optimize", "optimized", "returned"} /\ "search" \in Range(calls)

\* the places the first round enriched
FirstEnriched == SelectSeq(enriched_places, LAMBDA p : p.name[1] = "first")

\* the turn has no prior turn
NoPriorTurn == previous_request = None /\ previous_response.isNone

\* C1: in AI mode, when a step of the pipeline raises, process_message returns the
\* human-readable error text with workspace type "empty", and no exception ever
\* leaves process_message.
C1_ErrorFallback ==
    /\ propagated = None
    /\ (pc = "returned" /\ raised # NoRaise) =>
           /\ ai_enabled
           /\ result.response = ErrorText
           /\ result.workspace.type = "empty"

\* a retry suggestion call failed and the turn returned the error text
C1_Witness ==
    /\ pc = "returned"
    /\ raised.step = "retry_suggest"
    /\ result = fallback_response(ErrorText)

\* C2: a turn without prior context, classified as a route request with count
\* N <= 10, whose suggester returns N candidates that all enrich, returns workspace
\* type "map" with exactly N points and N-1 segments.
C2_MapForAllEnriched ==
    (/\ pc = "returned"
     /\ ai_enabled
     /\ NoPriorTurn
     /\ classification.is_route_request
     /\ classifier_count <= MaxPlaces
     /\ classification.count = classifier_count
     /\ Len(suggestions) = classifier_count
     /\ Len(enriched_places) = classifier_count
     /\ CallCount("suggest") = 1)
    => /\ result.workspace.type = "map"
       /\ Len(result.workspace.data.points) = classifier_count
       /\ Len(result.workspace.data.segments) = classifier_count - 1

\* C3: a second suggestion+enrichment round is performed exactly when the first
\* enrichment round returned fewer places than the target count, and never more
\* than one: at most 2 suggestion calls and 2 enrichment rounds per turn.
C3_RetryBound ==
    /\ CallCount("suggest") <= 2
    /\ EnrichRounds <= 2
    /\ ~FirstRoundDone => CallCount("suggest") <= 1
    /\ FirstRoundDone =>
           (CallCount("suggest") = 2 <=> Len(FirstEnriched) < classification.count)

\* the retry round ran and the result, still short, was returned
C3_Witness ==
    /\ pc = "returned"
    /\ CallCount("suggest") = 2
    /\ EnrichRounds = 2
    /\ Len(enriched_places) < classification.count

\* C4: the exclusion list of the retry suggestion call holds the name of every
\* candidate of the first suggestion call, enriched or not, and nothing else.
C4_RetryExclusion ==
    pc = "retry_suggest" =>
        /\ call.kind = "suggest"
        /\ call.excluded_places = Names(suggestions)

\* a retry call after a first round in which one candidate enriched and one did not
C4_Witness ==
    /\ pc = "retry_suggest"
    /\ Len(suggestions) = 2
    /\ Len(enriched_places) = 1

\* C5: the retry suggestion call requests exactly (target count - places enriched in
\* the first round), and the places of the retry round are appended after those of
\* the first round.
C5_RetryShortfall ==
    /\ pc = "retry_suggest" =>
           call.count = classification.count - Len(enriched_places)
    /\ (pc = "returned" /\ CallCount("suggest") = 2 /\ raised.step # "retry_suggest") =>
           enriched_places = FirstEnriched \o retry_enriched

\* both rounds enriched a place and the turn returned
C5_Witness ==
    /\ pc = "returned"
    /\ FirstEnriched # <<>>
    /\ retry_enriched # <<>>
    /\ enriched_places = FirstEnriched \o retry_enriched

\* C6: when classification of a route request returns count > 10, the turn ends with
\* the over-limit response and workspace type "empty", and no routing, suggestion or
\* enrichment call is made.
C6_CountCap ==
    (Classified /\ classification.is_route_request /\ classifier_count > MaxPlaces) =>
        /\ pc = "returned"
        /\ result = Response(OverLimitText, "empty")
        /\ calls = <<"classify">>

\* a turn classified with count 15 returned
C6_Witness ==
    /\ pc = "returned"
    /\ classification.is_route_request
    /\ classifier_count = MaxPlaces + 5
    /\ result.response = OverLimitText

\* C7: every call of the place suggester, first or retry, is made with count <= 10.
C7_SuggestCountCapped ==
    call.kind = "suggest" => call.count <= MaxPlaces

\* C8: when classification returns is_route_request = false, the turn ends with the
\* help message and workspace type "empty", and no routing, suggestion, enrichment
\* or map assembly step runs.
C8_HelpResponse ==
    (Classified /\ ~classification.is_route_request) =>
        /\ pc = "returned"
        /\ result = Response(HelpText, "empty")
        /\ calls = <<"classify">>
        /\ suggestions = <<>>
        /\ enriched_places = <<>>
        /\ raised = NoRaise

\* a turn classified as no route request, with a count over the limit, returned
C8_Witness ==
    /\ pc = "returned"
    /\ Classified
    /\ ~classification.is_route_request
    /\ classifier_count > MaxPlaces
    /\ result.response = HelpText

\* C9: when the routing decision has is_new_request = true, whatever its operation
\* type, the suggestion call receives no previous places, no modification instruction
\* and no operation hint, and its count is the classifier's count.
C9_NewRequestDiscardsPrior ==
    (pc = "suggest" /\ routing.is_new_request) =>
        /\ call.kind = "suggest"
        /\ call.previous_places = <<>>
        /\ call.modification_request = <<>>
        /\ call.operation_hint = None
        /\ call.count = classifier_count
        /\ classification.count = classifier_count

\* a new-request decision that names the operation add with an adjustment, in a turn
\* whose previous response lists places
C9_Witness ==
    /\ pc = "suggest"
    /\ routing.is_new_request
    /\ routing.operation_type = "add"
    /\ routing.count_adjustment = <<2>>
    /\ previous_count(previous_response) = FixtureCount
    /\ call.previous_places = <<>>

\* the routing decision in flight is a modification with operation type op
ModificationOf(op) ==
    pc = "suggest" /\ ~routing.is_new_request /\ routing.operation_type = op

\* the target count of an add or remove decision with adjustment d
AddRemoveTarget(op, d) ==
    IF op = "add" THEN previous_count(previous_response) + Abs(d)
    ELSE Max(1, previous_count(previous_response) - Abs(d))

\* C10, as stated: for a modification decision with operation type add (remove) and
\* count adjustment d, the target count is previousPlaceCount + |d|
\* (max(1, previousPlaceCount - |d|)).
C10_AnyAdjustment ==
    \A op \in {"add", "remove"} :
        (ModificationOf(op) /\ routing.count_adjustment # <<>>) =>
            call.count = AddRemoveTarget(op, routing.count_adjustment[1])

\* C10, amended: the same for a count adjustment d other than 0; the target count
\* then depends neither on the sign of d nor on the classifier's count, and is never
\* below 1 for remove.
C10_AddRemoveArithmetic ==
    \A op \in {"add", "remove"} :
        (ModificationOf(op) /\ AdjustmentTruthy(routing.count_adjustment)) =>
            /\ call.count = AddRemoveTarget(op, routing.count_adjustment[1])
            /\ classification.count = call.count
            /\ op = "remove" => call.count >= 1

\* 5 prior places and remove -1 give 4, with a classifier count that differs
C10_Witness ==
    /\ ModificationOf("remove")
    /\ routing.count_adjustment = <<-1>>
    /\ previous_count(previous_response) = FixtureCount
    /\ classifier_count # FixtureCount - 1
    /\ call.count = FixtureCount - 1

\* C11: for a modification decision with operation type replace_last or replace_all,
\* the target count is max(classifier count, previousPlaceCount), so it is never
\* smaller than the number of places in the prior response.
C11_ReplaceKeepsSize ==
    \A op \in {"replace_last", "replace_all"} :
        ModificationOf(op) =>
            /\ call.count = Max(classifier_count, previous_count(previous_response))
            /\ classification.count = call.count
            /\ call.count >= previous_count(previous_response)
            /\ call.count >= Len(extract_places_from_response(previous_response))

\* replace_last on 5 prior places with a classifier count of 1 asks for 5 places
C11_Witness ==
    /\ ModificationOf("replace_last")
    /\ routing.count_adjustment = <<-1>>
    /\ classifier_count = 1
    /\ previous_count(previous_response) = FixtureCount
    /\ call.count = FixtureCount

\* C12: in a turn with no previous request and no previous response, no routing call
\* is made between classification and suggestion.
C12_RouterOnlyWithPriorTurn ==
    NoPriorTurn => /\ pc # "route"
                   /\ "route" \notin Range(calls)

\* C13: when a turn has no prior turn, the routing decision is always
\* is_new_request = true with operation type "new", so the classifier's count is not
\* adjusted and no operation hint or previous place list reaches the suggester.
C13_NoPriorTurnIsNew ==
    (pc = "suggest" /\ NoPriorTurn) =>
        /\ routing.is_new_request
        /\ routing.operation_type = "new"
        /\ call.count = classifier_count
        /\ call.operation_hint = None
        /\ call.previous_places = <<>>

\* the candidates the turn has received from the suggester
Candidates == Range(Names(suggestions)) \cup Range(Names(retry_suggestions))

\* place p was built from a search result of a candidate of this turn whose address
\* belongs to the requested location
Verified(p) ==
    /\ p.name \in Candidates
    /\ \E o \in SearchOutcomes : o.status = "found" /\ o.address = p.address
    /\ city_in_address[Location][p.address]

\* C14: every place of the enriched set, and every point of a map built from it, comes
\* from a search result whose address passed the city check against the requested
\* location; a candidate without a search result or with a failing city check
\* contributes no entry, so the set never holds more entries than searches returned.
C14_OnlyVerifiedPlaces ==
    /\ \A p \in Range(enriched_places) \cup Range(retry_enriched)
                \cup Range(ordered_places) : Verified(p)
    /\ Len(FirstEnriched) + Len(retry_enriched)
           <= CallCount("search") - (IF pc \in {"enrich", "retry_enrich"} THEN 1 ELSE 0)
    /\ (ai_enabled /\ pc = "returned") =>
           \A i \in 1..Len(result.workspace.data.points) :
               \E p \in Range(enriched_places) :
                   p.name = result.workspace.data.points[i].name

\* four candidates were searched, in two rounds, and one of them was kept
C14_Witness ==
    /\ pc = "returned"
    /\ CallCount("search") = 4
    /\ Len(enriched_places) = 1
    /\ enriched_places[1].address = AddressInCity
    /\ enriched_places[1].name = <<"retry", 2>>

\* the positions, in the candidate list, of the places of an enriched list
Positions(places) == [i \in 1..Len(places) |-> places[i].name[2]]

\* the positions are strictly increasing
Increasing(positions) ==
    \A i, j \in 1..Len(positions) : i < j => positions[i] < positions[j]

\* the last search found a place whose address belongs to the requested location
LastSearchSucceeded ==
    /\ last_search.outcome.status = "found"
    /\ city_in_address[Location][last_search.outcome.address]

\* C15: enrich_places returns exactly the candidates that enriched, in the order of
\* the candidate list; a candidate that is not found or fails the city check is
\* dropped without an error reaching the caller, and the result is never longer
\* than the candidate list.
C15_EnrichManyOrdered ==
    /\ Increasing(Positions(FirstEnriched)) /\ Increasing(Positions(retry_enriched))
    /\ Len(FirstEnriched) <= Len(suggestions)
    /\ Len(retry_enriched) <= Len(retry_suggestions)
    /\ last_search # NoSearch =>
           (LastSearchSucceeded
              <=> last_search.query \in Range(Names(enriched_places))
                                           \cup Range(Names(retry_enriched)))
    /\ raised.step \notin {"enrich", "retry_enrich"}
    /\ (pc = "returned" /\ last_search # NoSearch /\ ~LastSearchSucceeded) =>
           raised.step \in {None, "retry_suggest", "map_assembly"}

\* the first of two candidates failed the city check and was dropped, the second was
\* kept; the retry round kept both of its candidates, in their order
C15_Witness ==
    /\ pc = "retry_enrich"
    /\ Len(suggestions) = 2
    /\ Positions(FirstEnriched) = <<2>>
    /\ idx = 2
    /\ Positions(retry_enriched) = <<1>>
    /\ last_search.query = <<"retry", 1>>
    /\ LastSearchSucceeded

\* C16: a timeout or other failure of a search_place call ends the turn in the error
\* fallback, as a failure of the classification or suggestion call does: the turn
\* returns the error text with workspace type "empty" and issues no further call.
C16_SearchFailurePropagates ==
    last_search.outcome.status \in {"timeout", "http_error"} =>
        /\ pc = "returned"
        /\ result = fallback_response(ErrorText)
        /\ calls[Len(calls)] = "search"

\* C17: a failure of the classification call or of the routing call fails the turn at
\* once: the failed call is not repeated, no suggestion or search call follows it,
\* and the turn ends in the error fallback response.
C17_NoRetryOfClassifyOrRoute ==
    /\ CallCount("classify") <= 1 /\ CallCount("route") <= 1
    /\ raised.step \in {"classify", "route"} =>
           /\ pc = "returned"
           /\ calls = (IF raised.step = "classify" THEN <<"classify">>
                                                  ELSE <<"classify", "route">>)
           /\ suggestions = <<>> /\ enriched_places = <<>>
           /\ last_search = NoSearch
           /\ result = fallback_response(ErrorText)
           /\ propagated = None

\* the routing call of a turn failed with an API error
C17_Witness ==
    /\ pc = "returned"
    /\ raised = [step |-> "route", exc |-> "APIError"]
    /\ calls = <<"classify", "route">>
    /\ result.response = ErrorText

\* the calls of a turn follow the pattern classify, route, suggest, search ...,
\* suggest, search ...
InPipelineOrder(kinds) ==
    /\ Len(kinds) >= 1 => kinds[1] = "classify"
    /\ Len(kinds) >= 2 => kinds[2] = "route"
    /\ Len(kinds) >= 3 => kinds[3] = "suggest"
    /\ \A i \in 4..Len(kinds) : kinds[i] \in {"suggest", "search"}
    /\ \A i \in 2..Len(kinds) : kinds[i] = "suggest" => kinds[i - 1] \in {"route", "search"}

\* C18: within a turn the calls are issued in the order classification, routing,
\* suggestion, enrichment (then retry suggestion and retry enrichment), one at a time:
\* the suggestion call starts after classification and routing returned, and every
\* search is for a candidate of a suggestion call that has returned.
C18_CallOrder ==
    /\ InPipelineOrder(calls)
    /\ pc \in {"classify", "route", "suggest", "enrich", "retry_suggest", "retry_enrich"} =>
           call.kind = calls[Len(calls)]
    /\ pc = "suggest" =>
           /\ Classified /\ routing # NoRouting
           /\ calls = <<"classify", "route", "suggest">>
    /\ pc = "enrich" =>
           /\ idx \in 1..Len(suggestions)
           /\ call = SearchCall(suggestions[idx])
           /\ CallCount("suggest") = 1 /\ CallCount("search") = idx
    /\ pc = "retry_suggest" => CallCount("search") = Len(suggestions)
    /\ pc = "retry_enrich" =>
           /\ idx \in 1..Len(retry_suggestions)
           /\ call = SearchCall(retry_suggestions[idx])
           /\ CallCount("suggest") = 2
           /\ CallCount("search") = Len(suggestions) + idx

\* a turn that issued all six kinds of steps: two suggestion calls, each followed by
\* the searches of its candidates
C18_Witness ==
    /\ pc = "retry_enrich"
    /\ calls = <<"classify", "route", "suggest", "search", "search", "suggest",
                 "search", "search">>

\* the first suggest_places call of the turn returned no place
FirstSuggestionEmpty ==
    /\ CallCount("suggest") >= 1
    /\ pc # "suggest" /\ raised.step # "suggest"
    /\ suggestions = <<>>

\* C19: when the first suggestion call returns no candidate, the turn ends with the
\* "couldn't find suitable places" fallback and workspace type "empty", and neither
\* a search nor a retry suggestion call is made.
C19_NoSuggestions ==
    FirstSuggestionEmpty =>
        /\ pc = "returned"
        /\ result.response = NoSuggestionsText
        /\ result.workspace.type = "empty"
        /\ calls = <<"classify", "route", "suggest">>
        /\ last_search = NoSearch
        /\ enriched_places = <<>> /\ retry_suggestions = <<>>

\* a turn whose first suggestion call returned an empty list
C19_Witness ==
    /\ FirstSuggestionEmpty
    /\ pc = "returned"
    /\ result = fallback_response(NoSuggestionsText)
    /\ classification.count = MaxCount

\* both enrichment rounds of the turn are over
BothRoundsDone ==
    /\ pc = "returned"
    /\ CallCount("suggest") = 2
    /\ raised.step # "retry_suggest"

\* C20: when the enriched set is empty after the first round and the retry round, the
\* turn ends with the "couldn't find locations" fallback and workspace type "empty";
\* no returned map workspace has zero points.
C20_NothingEnriched ==
    /\ (BothRoundsDone /\ enriched_places = <<>>) =>
           /\ result = fallback_response(NoLocationsText)
           /\ raised = NoRaise
    /\ (pc = "returned" /\ result.workspace.type = "map") =>
           Len(result.workspace.data.points) > 0

\* both rounds searched candidates and none was kept
C20_Witness ==
    /\ BothRoundsDone
    /\ enriched_places = <<>>
    /\ CallCount("search") = 2 * MaxSuggest
    /\ last_search.outcome.status = "no_results"
    /\ result.response = NoLocationsText

\* the turn reached map assembly with a list of places and has returned
MapAssembled == pc = "returned" /\ ai_enabled /\ ordered_places # <<>>

\* C21: for a list of N enriched places the assembled map data has exactly N points
\* and max(N-1, 0) segments, and segment i goes from the name of point i to the
\* name of point i+1.
C21_SegmentCount ==
    MapAssembled =>
        LET data == result.workspace.data
            N == Len(ordered_places)
        IN  /\ Len(data.points) = N
            /\ Len(data.segments) = Max(N - 1, 0)
            /\ \A i \in 1..Len(data.segments) :
                   /\ data.segments[i].from = data.points[i].name
                   /\ data.segments[i].to = data.points[i + 1].name

\* C22: the points of the returned map are in the optimised visiting order: the
\* output of optimize_route_greedy on the enriched list (first round, then retry
\* round) for more than 2 places, the enriched order for 1 or 2; the numbered list
\* of the text response has the same order.
C22_PointsInVisitingOrder ==
    MapAssembled =>
        LET visiting == IF Len(enriched_places) > 2
                        THEN optimize_route_greedy(enriched_places)
                        ELSE enriched_places
        IN  /\ result.workspace.type = "map"
            /\ [i \in 1..Len(result.workspace.data.points) |->
                   result.workspace.data.points[i].name] = Names(visiting)
            /\ result.listed = Names(visiting)

\* optimize_route_greedy has returned; its argument is enriched_places and the list
\* it returned is ordered_places
OptimizerReturned == pc = "optimized"

\* C23: for a list of 0, 1 or 2 places optimize_route_greedy returns the list
\* unchanged, the same elements in the same order, without entering its loop.
C23_SmallInputUnchanged ==
    (OptimizerReturned /\ Len(enriched_places) <= 2) =>
        /\ ordered_places = enriched_places
        /\ iterations = 0
        /\ optimized = <<>>

\* two places, the second south of the first, were returned as they came
C23_Witness ==
    /\ OptimizerReturned
    /\ Len(enriched_places) = 2
    /\ enriched_places[1].lat > enriched_places[2].lat
    /\ enriched_places[1].name # enriched_places[2].name
    /\ ordered_places = enriched_places

\* how many times x occurs in the list s
Occurrences(s, x) == Cardinality({i \in 1..Len(s) : s[i] = x})
Lats(s) == [i \in 1..Len(s) |-> s[i].lat]

\* C24: the list optimize_route_greedy returns is a permutation of its input,
\* duplicates included (same length, every place as often as in the input), and
\* the input list is never modified.
C24_Permutation ==
    /\ [](OptimizerReturned =>
             /\ Len(ordered_places) = Len(enriched_places)
             /\ \A x \in Range(enriched_places) \cup Range(ordered_places) :
                    Occurrences(ordered_places, x) = Occurrences(enriched_places, x))
    /\ [][enriched_places' = enriched_places]_vars

\* a list holding the same place twice was reordered
C24_Witness ==
    /\ OptimizerReturned
    /\ Len(enriched_places) > 2
    /\ \E i, j \in 1..Len(enriched_places) : i < j /\ enriched_places[i] = enriched_places[j]
    /\ ordered_places # enriched_places
    /\ iterations = Len(enriched_places) - 1

\* the input positions in visiting order: positions[k] is where the k-th place of
\* the route stood in the input
VisitingPositions(places, route) ==
    {positions \in [1..Len(places) -> 1..Len(places)] :
        /\ \A i, j \in 1..Len(places) : i # j => positions[i] # positions[j]
        /\ \A k \in 1..Len(places) : route[k] = places[positions[k]]}

\* C25: the route starts at the first input place, and every later place is the
\* not yet visited place nearest to the one before it, the earliest of the input
\* on a tie; so the same input always gives the same route.
C25_GreedyNearestNeighbour ==
    (OptimizerReturned /\ enriched_places # <<>>) =>
        /\ Len(ordered_places) = Len(enriched_places)
        /\ \E positions \in VisitingPositions(enriched_places, ordered_places) :
               /\ positions[1] = 1
               /\ \A k \in 2..Len(enriched_places) :
                      \A j \in 1..Len(enriched_places) \ {positions[i] : i \in 1..(k - 1)} :
                          LET here == calculate_distance(ordered_places[k - 1], ordered_places[k])
                              there == calculate_distance(ordered_places[k - 1], enriched_places[j])
                          IN  \/ here < there
                              \/ here = there /\ positions[k] <= j
                              \/ here = there /\ enriched_places[j] = ordered_places[k]
        /\ ordered_places = optimize_route_greedy(enriched_places)

\* from the third place of the route the second and the fourth input places were
\* equally near, and the second was visited first
C25_Witness ==
    /\ OptimizerReturned
    /\ Lats(enriched_places) = <<1, 2, 1, 0>>
    /\ Lats(ordered_places) = <<1, 1, 2, 0>>

\* a capability had no credentials when the service was constructed
CredentialsMissing == ~openai_api_key \/ ~google_api_key

\* C26: when a capability has no credentials at construction, AI mode is off for
\* the lifetime of the service: every turn is answered by the mock responder, no
\* classification, routing, suggestion or place-search call is made, no turn
\* returns the per-request error text, and the mode never changes.
C26_MockModeForLifetime ==
    /\ [](CredentialsMissing =>
             /\ ~ai_enabled
             /\ pc \in {"idle", "returned"}
             /\ call = NoCall
             /\ calls = <<>>
             /\ raised = NoRaise
             /\ propagated = None
             /\ pc = "returned" =>
                    /\ result = process_with_mock(message)
                    /\ result.response # ErrorText)
    /\ [][ai_enabled' = ai_enabled]_vars

\* with the OpenAI key missing and the Google key present a turn asking for bars
\* was answered with the sample route
C26_Witness ==
    /\ ~openai_api_key
    /\ google_api_key
    /\ pc = "returned"
    /\ "bar" \in message
    /\ calls = <<>>
    /\ result.workspace.type = "map"
    /\ result.workspace.data = generate_map

\* the tokens of an address: split on whitespace and commas, punctuation stripped
StrippedTokens(a) ==
    LET tokens == Split(Replace(Lower(a), ",", " "))
    IN  {Strip(tokens[i], {".", ",", ";", "-"}) : i \in 1..Len(tokens)}

\* strategy 1: case-insensitive substring
SubstringMatch(city, a) == Contains(Lower(a), Lower(city))

\* strategy 2: diacritic-stripped, lowercased substring
NormalizedSubstringMatch(city, a) ==
    Contains(normalize_city_name(a), normalize_city_name(city))

\* strategy 3: an address token of length >= 3 equals the normalized city name
TokenEqualMatch(city, a) ==
    \E token \in StrippedTokens(a) :
        Len(token) >= 3 /\ normalize_city_name(token) = normalize_city_name(city)

\* strategy 4: the city name has >= 4 characters and an address token of length >= 3
\* is within Levenshtein distance max(3, floor(len(city) / 3)) of it
TokenFuzzyMatch(city, a) ==
    LET name == normalize_city_name(city)
    IN  /\ Len(name) >= 4
        /\ \E token \in StrippedTokens(a) :
               /\ Len(token) >= 3
               /\ levenshtein_distance(name, normalize_city_name(token))
                      <= (IF Len(name) \div 3 > 3 THEN Len(name) \div 3 ELSE 3)

\* _is_city_in_address has returned
MatcherReturned == pc = "matched"

\* C27: _is_city_in_address returns true exactly when one of the four strategies
\* succeeds; it is true for Munich and "Marienplatz, München, Germany", true for
\* Moscow and "ul. Tverskaya, Moskva", and false for Munich and
\* "Hauptstraße, Stuttgart, Germany".
C27_FourStrategies ==
    MatcherReturned =>
        /\ matched = (\/ SubstringMatch(city_arg, address_arg)
                      \/ NormalizedSubstringMatch(city_arg, address_arg)
                      \/ TokenEqualMatch(city_arg, address_arg)
                      \/ TokenFuzzyMatch(city_arg, address_arg))
        /\ (city_arg = Location /\ address_arg = AddressDiacritic) => matched = TRUE
        /\ (city_arg = Moscow /\ address_arg = AddressEditDistance) => matched = TRUE
        /\ (city_arg = Location /\ address_arg = AddressOtherCity) => matched = FALSE

\* a city of twelve letters matched a token at edit distance 4, by strategy 4 alone
C27_Witness ==
    /\ MatcherReturned
    /\ city_arg = Thessaloniki
    /\ address_arg = JoinTokens(<<TokenStreet, TokenTessalonique>>)
    /\ levenshtein_distance(normalize_city_name(city_arg),
                            normalize_city_name(TokenTessalonique)) = 4
    /\ ~SubstringMatch(city_arg, address_arg)
    /\ ~NormalizedSubstringMatch(city_arg, address_arg)
    /\ ~TokenEqualMatch(city_arg, address_arg)
    /\ matched = TRUE

\* the values the turn with locals f holds come from its own arguments and from the
\* answers it received itself
OwnValuesOnly(f) ==
    /\ f.pc = "suggest" =>
           f.call = first_suggest_call(f.message,
                                       [f.classification EXCEPT !.count = f.classifier_count],
                                       f.previous_response, f.routing)
    /\ f.call.kind = "suggest" =>
           Range(f.call.previous_places)
               \subseteq Range(extract_places_from_response(f.previous_response))
    /\ f.pc \in {"suggest", "enrich", "retry_suggest", "retry_enrich"} =>
           f.classification.count
               \in {f.classifier_count,
                    adjusted_count([is_new_request |-> FALSE, operation_type |-> "add",
                                    count_adjustment |-> <<1>>],
                                   f.classifier_count, previous_count(f.previous_response))}
    /\ \A p \in Range(f.enriched_places) \cup Range(f.retry_enriched) :
           p.name \in Range(Names(f.suggestions)) \cup Range(Names(f.retry_suggestions))
    /\ Len(f.enriched_places) <= Len(f.suggestions) + Len(f.retry_suggestions)
    /\ f.pc = "enrich" => f.call = SearchCall(f.suggestions[f.idx])
    /\ f.pc = "retry_enrich" => f.call = SearchCall(f.retry_suggestions[f.idx])
    /\ f.pc = "retry_suggest" =>
           f.call = retry_suggest_call(f.classification, f.suggestions, f.enriched_places)
    /\ (f.pc = "returned" /\ f.calls = <<>>) => f.result = process_with_mock(f.message)
    /\ (f.pc = "returned" /\ f.calls # <<>>) =>
           f.result.response
               \in {HelpText, OverLimitText, NoSuggestionsText, NoLocationsText, ErrorText}
    /\ (f.pc = "returned" /\ f.result.response = HelpText) =>
           ~f.classification.is_route_request
    /\ (f.pc = "returned" /\ f.result.response = NoLocationsText) =>
           f.enriched_places = <<>> /\ f.suggestions # <<>>
    /\ f.pc = "idle" => f = NotStarted

\* C28: turns are isolated. Whether two turns interleave at their awaits or follow
\* one another, each holds only values that come from its own arguments and from
\* the answers it received (count adjustment, prior place list, enriched places,
\* result), and the locals of a waiting turn are changed by no step of the other.
C28_TurnsIsolated ==
    /\ [](OwnValuesOnly(running) /\ OwnValuesOnly(suspended))
    /\ [][\/ suspended' = suspended
          \/ suspended' = running /\ running' = suspended]_vars

\* one turn, without a prior response, waits for its second place search with one
\* place enriched, while the other, a modification of a prior answer, waits for its
\* suggestions
C28_Witness ==
    /\ pc = "enrich"
    /\ idx = 2
    /\ previous_response.isNone
    /\ Len(enriched_places) = 1
    /\ suspended.pc = "suggest"
    /\ suspended.call.previous_places # <<>>
    /\ suspended.classification.count # classification.count
    /\ suspended.enriched_places = <<>>

\* a turn of the AI pipeline is in flight
TurnInFlight == ai_enabled /\ pc \notin {"idle", "returned"}

\* the terminal outcomes of a turn, read off the value it returned
HelpResponse == result = Response(HelpText, "empty")
CountTooHigh == result = Response(OverLimitText, "empty")
Done == result.workspace.type = "map"
ErrorFallback ==
    /\ result.workspace.type = "empty"
    /\ result.response \in {ErrorText, NoSuggestionsText, NoLocationsText}

Truth(b) == IF b THEN 1 ELSE 0

\* the loop of the optimizer has run and ended in this turn
LoopEnded ==
    \/ pc = "optimized"
    \/ pc = "returned" /\ raised.step = "map_assembly" /\ Len(enriched_places) > 2

\* C29: provided every capability call returns or fails in the end, a turn of the AI
\* pipeline terminates, in exactly one of the outcomes HelpResponse, CountTooHigh,
\* Done (map) and ErrorFallback; the retry step runs at most once, and the loop of
\* the optimizer ends after exactly len(places) - 1 iterations.
C29_TurnTerminates ==
    /\ TurnInFlight ~> (pc = "returned")
    /\ []((ai_enabled /\ pc = "returned") =>
             Truth(HelpResponse) + Truth(CountTooHigh) + Truth(Done)
                 + Truth(ErrorFallback) = 1)
    /\ [](CallCount("suggest") <= 2 /\ EnrichRounds <= 2)
    /\ [](pc = "optimize" =>
             /\ remaining # <<>>
             /\ iterations + Len(remaining) = Len(enriched_places) - 1)
    /\ [](LoopEnded =>
             /\ remaining = <<>>
             /\ iterations = Len(enriched_places) - 1)

\* a turn whose two rounds enriched four places ran the optimizer loop three times
\* and ended in the error fallback
C29_Witness ==
    /\ ai_enabled
    /\ pc = "returned"
    /\ CallCount("suggest") = 2
    /\ Len(enriched_places) = 4
    /\ iterations = 3
    /\ ErrorFallback
    /\ ~HelpResponse /\ ~CountTooHigh /\ ~Done

\* C30: every value process_message returns has a text response and a workspace of
\* type "empty", "map" or "checklist"; the workspace has a "data" entry exactly when
\* its type is not "empty"; in AI mode the type is "empty" or "map".
C30_ResponseShape ==
    pc = "returned" =>
        /\ result.response # None
        /\ result.workspace.type \in {"empty", "map", "checklist"}
        /\ "type" \in result.workspace.keys
        /\ "data" \in result.workspace.keys <=> result.workspace.type # "empty"
        /\ ai_enabled => result.workspace.type \in {"empty", "map"}
        /\ propagated = None

\* in mock mode a checklist was returned with its items
C30_Witness ==
    /\ pc = "returned"
    /\ ~ai_enabled
    /\ result.workspace.type = "checklist"
    /\ result.workspace.keys = {"type", "data"}
    /\ Len(result.workspace.data.items) = ChecklistItems

\* C31: every routing decision route_request returns carries a reasoning longer
\* than 10 characters.
C31_ReasoningNonTrivial ==
    pc = "suggest" => routing.reasoning > ReasoningFloor

\* generate_full_route_link has returned
LinkReturned == pc = "linked"

\* C32: for 2 or more places the full-route link runs from the first place to the
\* last, its waypoints are the places between them in order, and its travel mode is
\* the requested one; for 1 place it is that place's own link; for none it is empty.
C32_FullRouteLink ==
    LinkReturned =>
        LET N == Len(ordered_places)
        IN  /\ N = 0 => full_route_link = EmptyLink
            /\ N = 1 => full_route_link = generate_place_link(ordered_places[1])
            /\ N >= 2 =>
                   /\ full_route_link.kind = "directions"
                   /\ full_route_link.origin = Coordinates(ordered_places[1])
                   /\ full_route_link.destination = Coordinates(ordered_places[N])
                   /\ Len(full_route_link.waypoints) = N - 2
                   /\ \A i \in 2..(N - 1) :
                          full_route_link.waypoints[i - 1] = Coordinates(ordered_places[i])
                   /\ full_route_link.travelmode = classification.travel_mode

\* a driving route over four places, the two in the middle at different points
C32_Witness ==
    /\ LinkReturned
    /\ Lats(ordered_places) = <<0, 2, 1, 0>>
    /\ classification.travel_mode = "driving"
    /\ full_route_link.waypoints = <<2, 1>>

\* the first suggest_places call of the turn has been issued
FirstSuggestIssued == pc = "suggest"

\* the place names extracted from previous_response
ExtractedNames == previous_places(previous_response)

\* a modification decision without extracted names: fresh mode, hint still passed
HintWithoutNames ==
    ~IsFreshDecision(routing) /\ ExtractedNames = <<>> =>
        /\ SuggestMode(call) = "fresh"
        /\ call.operation_hint = routing.operation_type

\* in modification mode the call carries the prior names and the message
ModificationArguments ==
    SuggestMode(call) = "modification" =>
        /\ call.previous_places = ExtractedNames
        /\ call.modification_request = <<message>>

\* C33 as stated: the first suggestion call runs in modification mode if and only if
\* the routing decision is not a new request and at least one place name was
\* extracted from previousResponse; a modification decision without extracted names
\* gives a fresh-mode call that still carries the operation hint.
C33_ModificationMode ==
    FirstSuggestIssued =>
        /\ SuggestMode(call) = "modification" <=>
               ~IsFreshDecision(routing) /\ ExtractedNames # <<>>
        /\ ModificationArguments
        /\ HintWithoutNames

\* C33: the first suggestion call runs in modification mode if and only if the
\* routing decision is not a new request, at least one place name was extracted from
\* previousResponse and the message is not the empty string; a modification decision
\* without extracted names gives a fresh-mode call that still carries the operation
\* hint.
C33_ModificationModeNonEmptyMessage ==
    FirstSuggestIssued =>
        /\ SuggestMode(call) = "modification" <=>
               /\ ~IsFreshDecision(routing)
               /\ ExtractedNames # <<>>
               /\ message # EmptyMessage
        /\ ModificationArguments
        /\ HintWithoutNames

\* a replace_last decision over one extracted name: the call is in modification mode
C33_Witness ==
    /\ FirstSuggestIssued
    /\ routing.operation_type = "replace_last"
    /\ ~routing.is_new_request
    /\ Len(ExtractedNames) = 1
    /\ message = {"bar", "center"}
    /\ SuggestMode(call) = "modification"
    /\ call.previous_places = ExtractedNames

\* the retry suggest_places call of the turn has been issued
RetrySuggestIssued == pc = "retry_suggest"

\* C34: the retry suggestion call is always in fresh mode, also in a modification
\* turn: it carries no previous place list, no modification instruction, no operation
\* hint and no theme override, only the shortfall count, the classifier's theme and
\* the exclusion list.
C34_RetryFreshMode ==
    RetrySuggestIssued =>
        /\ SuggestMode(call) = "fresh"
        /\ call.previous_places = <<>>
        /\ call.modification_request = <<>>
        /\ call.operation_hint = None
        /\ call.theme = classification.theme
        /\ call.count = classification.count - Len(enriched_places)
        /\ call.excluded_places = Names(suggestions)

\* a retry in an "add" turn (the target count is above both the classifier's count and
\* the number of extracted names) whose message mentions the center, so that the first
\* call had the theme override "in city center"
C34_Witness ==
    /\ RetrySuggestIssued
    /\ ExtractedNames # <<>>
    /\ classification.count > classifier_count
    /\ classification.count > Len(ExtractedNames)
    /\ MentionsCenter(message)
    /\ classification.theme = "craft beer"
    /\ call.theme = "craft beer"
    /\ call.excluded_places # <<>>

\* C35: the count passed to any suggestion call is at least 1: the target count after
\* any routing adjustment is at least 1, and so is the shortfall count of the retry
\* call whenever the retry is made.
C35_SuggestCountPositive ==
    /\ FirstSuggestIssued =>
           /\ classification.count >= 1
           /\ call.count = classification.count
    /\ RetrySuggestIssued =>
           /\ classification.count >= 1
           /\ call.count >= 1

\* a "remove" decision taking more places than the previous response lists: the
\* first call asks for 1 place
C35_Witness ==
    /\ FirstSuggestIssued
    /\ routing.operation_type = "remove"
    /\ ~routing.is_new_request
    /\ AdjustmentTruthy(routing.count_adjustment)
    /\ Abs(routing.count_adjustment[1]) > Len(ExtractedNames)
    /\ call.count = 1

\* _enrich_with_retry has returned a set of places that is not empty
EnrichedSetFinal == pc \in {"optimize", "optimized"}

\* C36: the number of places in the final enriched set never exceeds the target count
\* of the turn, whatever number of candidates the suggester returns in the first call
\* and in the retry call.
C36_EnrichedWithinTarget ==
    EnrichedSetFinal => Len(enriched_places) <= classification.count

\* the decision is a modification that names no number of places to add or remove
NoAdjustmentDecision ==
    /\ ~IsFreshDecision(routing)
    /\ \/ /\ routing.operation_type \in {"add", "remove"}
          /\ ~AdjustmentTruthy(routing.count_adjustment)
       \/ routing.operation_type = "refine"

\* C37: for an add or remove decision whose count adjustment is absent or 0, and for a
\* refine decision, the target count is exactly the count the classifier returned,
\* whatever the number of previous places.
C37_CountLeftAlone ==
    FirstSuggestIssued /\ NoAdjustmentDecision =>
        /\ classification.count = classifier_count
        /\ call.count = classifier_count

\* an "add" decision with adjustment 0 over a previous response that lists another
\* number of places than the classifier's count
C37_Witness ==
    /\ FirstSuggestIssued
    /\ NoAdjustmentDecision
    /\ routing.operation_type = "add"
    /\ routing.count_adjustment = <<0>>
    /\ Len(ExtractedNames) > 0
    /\ Len(ExtractedNames) # classifier_count
    /\ call.count = classifier_count

\* the request just served, and the one before it
LastRequest == requests'[Len(requests')]
SessionServed == requests' # requests /\ pc = "store"

\* update, toggle_favorite or delete of an id that is not stored: 404, store unchanged
UnknownIdRejected ==
    LastRequest.op \in {"update", "toggle_favorite", "delete"}
    /\ LastRequest.id \notin DOMAIN chat_sessions_db =>
        /\ http_exception'.status_code = 404
        /\ chat_sessions_db' = chat_sessions_db

\* delete of a stored id removes that session and no other
DeleteRemovesExactlyOne ==
    LastRequest.op = "delete" /\ LastRequest.id \in DOMAIN chat_sessions_db =>
        /\ http_exception' = NoException
        /\ DOMAIN chat_sessions_db' = DOMAIN chat_sessions_db \ {LastRequest.id}
        /\ \A j \in DOMAIN chat_sessions_db' : chat_sessions_db'[j] = chat_sessions_db[j]

\* the second of two successive toggle_favorite calls on a stored id restores
\* is_favorite
ToggleTwiceRestores ==
    \A k \in 1..(Len(requests) - 1) :
        /\ requests[k].op = "toggle_favorite"
        /\ requests[k + 1].op = "toggle_favorite"
        /\ requests[k].id = requests[k + 1].id
        /\ requests[k].status_code = 0
        => /\ requests[k + 1].status_code = 0
           /\ requests[k + 1].after = requests[k].before

SessionStepEffects == SessionServed => UnknownIdRejected /\ DeleteRemovesExactlyOne

\* C38: update, toggle_favorite or delete of a session id that is not stored fails with
\* 404 and leaves the store unchanged; a successful delete removes exactly that session
\* and leaves all others unchanged; two successive toggle_favorite calls restore
\* is_favorite.
C38_SessionStore ==
    [](pc = "store" => ToggleTwiceRestores) /\ [][SessionStepEffects]_vars

\* a new session toggled twice, so that it is no favorite again, after which the
\* delete of an id that is not stored was refused
C38_Witness ==
    /\ pc = "store"
    /\ Len(requests) >= 4
    /\ requests[1].op = "create"
    /\ requests[2].op = "toggle_favorite" /\ requests[2].after = <<TRUE>>
    /\ requests[3].op = "toggle_favorite" /\ requests[3].after = <<FALSE>>
    /\ requests[3].id = requests[2].id
    /\ requests[4].op = "delete" /\ requests[4].id # requests[1].id
    /\ requests[4].status_code = 404
    /\ DOMAIN chat_sessions_db = {requests[1].id}

\* after the first k requests, token was issued by a login or register and not passed
\* to logout since
IssuedNotLoggedOut(token, k) ==
    \E i \in 1..k :
        /\ requests[i].issued = <<token>>
        /\ \A j \in (i + 1)..k :
               ~(requests[j].op = "logout" /\ requests[j].token = <<token>>)

\* every get_current_user so far succeeded for such a token and failed with 401 for
\* any other
CurrentUserIffIssued ==
    \A k \in 1..Len(requests) :
        requests[k].op = "get_current_user" =>
            /\ requests[k].status_code \in {0, 401}
            /\ requests[k].status_code = 0
                   <=> IssuedNotLoggedOut(requests[k].token[1], k - 1)

\* get_current_user would succeed now
TokenValid(sessions, token) ==
    get_current_user(users_db, sessions, token).exception = NoException

\* the tokens valid now are the ones issued and not logged out
ValidIffIssued ==
    \A token \in AuthTokens \cup {EmptyToken} :
        TokenValid(auth_sessions_db, token) <=> IssuedNotLoggedOut(token, Len(requests))

AuthServed == requests' # requests /\ pc = "auth"

\* logout never fails, leaves every other token as valid as it was, and changes
\* nothing for a token that is absent or has no session
LogoutEffects ==
    AuthServed /\ LastRequest.op = "logout" =>
        /\ http_exception' = NoException
        /\ \A token \in AuthTokens :
               <<token>> # LastRequest.token =>
                   (TokenValid(auth_sessions_db', token)
                        <=> TokenValid(auth_sessions_db, token))
        /\ \/ LastRequest.token = <<>>
           \/ LastRequest.token[1] \notin DOMAIN auth_sessions_db
           => /\ auth_sessions_db' = auth_sessions_db
              /\ users_db' = users_db

AuthInvariant == pc = "auth" => CurrentUserIffIssued /\ ValidIffIssued

\* C39: get_current_user(token) succeeds if and only if the token was issued by a
\* login or register and has not been passed to logout since, and fails with 401
\* otherwise; logout of one token leaves every other token valid; logout of an
\* unknown or absent token changes nothing and does not fail.
C39_TokenSessions ==
    [](AuthInvariant) /\ [][LogoutEffects]_vars

\* a token issued by login, passed to logout and then refused by get_current_user
C39_Witness ==
    /\ pc = "auth"
    /\ Len(requests) >= 3
    /\ requests[1].op = "login" /\ requests[1].issued = <<1>>
    /\ requests[2].op = "logout" /\ requests[2].token = <<1>>
    /\ requests[3].op = "get_current_user" /\ requests[3].token = <<1>>
    /\ requests[3].status_code = 401
    /\ http_exception = InvalidSession

====
